---- MODULE Spec2Model ----
(***************************************************************************)
(* Rehau Nea Smart: the coordinator's MQTT session (coordinator.py), the   *)
(* auth client (auth.py) and the entry setup (__init__.py) as a state      *)
(* machine.  One action is the code a task runs between two suspension     *)
(* points (await on connect, recv, close, sleep or an HTTP request).       *)
(* websocket.send() writes to the transport buffer and suspends only under *)
(* back-pressure, so a send and the code after it belong to one action.    *)
(***************************************************************************)
EXTENDS Integers, Sequences, FiniteSets, TLC

VARIABLES
    websocket,           \* coordinator.websocket: 0 (None) or a connection id
    running,             \* coordinator._running
    reconnect_attempts,  \* coordinator._reconnect_attempts
    packet_id,           \* coordinator.packet_id
    conn,                \* every transport connection ever opened
    task,                \* asyncio tasks of the session
    cmd,                 \* the command in progress (_send_zone_command) and its record
    auth,                \* RehauAuthClient: credentials and correlation identifiers
    entry,               \* config entry data: the persisted credentials
    registered,          \* hass.data[DOMAIN][entry_id] is the coordinator
    http_open,           \* the aiohttp session is open
    issued,              \* tokens the token endpoint has issued so far
    now,                 \* wall clock, in minutes
    hist,                \* history of the session (what has happened so far)
    call,                \* the auth-client call last made and its outcome
    codec                \* the codec function last applied, its input and output

vars == <<websocket, running, reconnect_attempts, packet_id, conn, task, cmd,
          auth, entry, registered, http_open, issued, now, hist, call, codec>>

-----------------------------------------------------------------------------
(* Bounds of the model *)
MaxConn == 3        \* transport connections opened in one behaviour
MaxConnCmd == 2     \* the same, in behaviours with a command
MaxLoops == 3       \* background loop tasks alive at the same time
MaxAlive == 2       \* the same after a (re)connection, in behaviours with disconnect
MaxCmds == 1        \* commands issued in one behaviour
MaxIssued == 2      \* token responses issued in one behaviour
MaxNow == 9         \* the clock stops here
MaxLength == 300    \* remaining lengths 0..MaxLength are encoded, and the limits
MaxTopic == 40      \* longest topic, in bytes
MaxPayload == 200   \* longest payload and longest credential, in bytes
MinMilli == 5000    \* lowest temperature, in 1/1000 degree
MaxMilli == 35000   \* highest temperature, in 1/1000 degree
MaxSubs == 2        \* Subscribe frames built one after the other

(* Program constants *)
None == 0
max_reconnect_attempts == 3
RefreshMarginMin == 5
DefaultExpiresInMin == 1440

ConnIds == 1..MaxConn
LoopIds == 1..MaxLoops
CmdT == MaxLoops + 1
UnlT == MaxLoops + 2
SetupT == MaxLoops + 3
TaskIds == 1..(MaxLoops + 3)

-----------------------------------------------------------------------------
(* Connections *)
\* coordinator.py 199 and 203: the topics of the two Subscribe frames
TopicAccount == <<"client", "email">>
TopicRealtime == <<"client", "device_id", "realtime">>

\* acked: a Connect-Ack 0 was received on it; subs: the topics of the
\* Subscribe frames sent on it, in the order sent; consumed: the frames that
\* the recv() calls after the Subscribes took
NewConn == [st |-> "new", acked |-> FALSE, subs |-> <<>>, pubs |-> 0,
            password |-> None, client |-> None, consumed |-> <<>>]

nOpened == Cardinality({c \in ConnIds : conn[c].st # "new"})

IsOpen(cn, c) == c # None /\ cn[c].st = "open"

\* a closed connection: what was sent on it is of no further interest
ClosedConn == [NewConn EXCEPT !.st = "closed"]

CloseConn(cn, c) == IF c = None THEN cn ELSE [cn EXCEPT ![c] = ClosedConn]

\* the program points at which a task is suspended in websocket.recv()
RecvPcs == {"c_ack", "s1_ack", "s2_ack", "l_recv"}

\* websockets refuses a second recv() while another coroutine is in recv()
RecvBusy(c, t) ==
    \E u \in TaskIds \ {t} : task[u].pc \in RecvPcs /\ task[u].conn = c

\* a task slot: kind and pc say what runs and where it is suspended, conn is
\* the connection object the pending recv()/close() was called on, rwr is
\* connect_mqtt's retry_with_refresh, nRefresh/nConnect count the refreshes
\* and Connect frames of the connect_mqtt invocation in progress
IdleTask == [kind |-> "none", pc |-> "idle", conn |-> None,
             rwr |-> FALSE, nRefresh |-> 0, nConnect |-> 0]

FreeLoops(tk) == {i \in LoopIds : tk[i].kind = "none"}

Min(S) == CHOOSE x \in S : \A y \in S : x <= y


-----------------------------------------------------------------------------
(* Credentials *)
Creds(a) == [access_token |-> a.access_token, refresh_token |-> a.refresh_token,
             sid |-> a.sid, expires_at |-> a.expires_at]

\* auth.py 299-307: a 200 answer replaces the four fields
RefreshApplied(a, g, e) ==
    [a EXCEPT !.access_token = g, !.refresh_token = g, !.sid = g,
              !.expires_at = now + e, !.expires_from = g]

\* auth.py 301-305: the body of the 200 answer carries an expires_in that is
\* no number (null, a string): three fields are assigned, then timedelta()
\* raises and expires_at keeps its value
RefreshTorn(a, g) ==
    [a EXCEPT !.access_token = g, !.refresh_token = g, !.sid = g]

\* auth.py 290-291 and aiohttp's closed-session check: the call raises before
\* any request is made
RefreshFailsNow == auth.refresh_token = None \/ ~http_open

RefreshOutcomes == {"ok", "status", "error"}
ExpiresIn == {DefaultExpiresInMin}

\* coordinator.py 214-230: the entry is found only through hass.data
Persisted(a) == IF registered THEN Creds(a) ELSE entry

-----------------------------------------------------------------------------
(* Reconnect procedure, coordinator.py 284-321 *)
GiveUp == reconnect_attempts >= max_reconnect_attempts

MayRecurse == reconnect_attempts < max_reconnect_attempts

\* where a task continues when _attempt_reconnect_with_refresh returns
ReconnectReturned(r) ==
    IF r.kind = "cmd" THEN [IdleTask EXCEPT !.kind = "cmd", !.pc = "m_sleep"]
    ELSE IdleTask

\* where a task continues when connect_mqtt raises
ConnectFailed(r) ==
    IF r.kind = "setup" THEN [IdleTask EXCEPT !.kind = "setup", !.pc = "x_fail"]
    ELSE [IdleTask EXCEPT !.kind = r.kind, !.pc = "r_wait10"]

\* lines 301-310: the refresh call of the procedure, then the backoff sleep
RefreshOrBackoff == IF RefreshFailsNow THEN "r_backoff" ELSE "r_refresh"

\* lines 286-299, run by task t whose record is r; cn is the connection table
ReconnectStart(t, r, cn) ==
    /\ running' = FALSE
    /\ IF GiveUp
         THEN /\ reconnect_attempts' = reconnect_attempts
              /\ conn' = cn
              /\ task' = [task EXCEPT ![t] = ReconnectReturned(r)]
         ELSE /\ reconnect_attempts' = reconnect_attempts + 1
              /\ IF websocket # None
                   THEN /\ conn' = CloseConn(cn, websocket)
                        /\ task' = [task EXCEPT ![t] =
                                       [r EXCEPT !.pc = "r_close", !.conn = websocket]]
                   ELSE /\ conn' = cn
                        /\ task' = [task EXCEPT ![t] =
                                       [r EXCEPT !.pc = RefreshOrBackoff, !.conn = None]]

\* line 299 after close() returned, then the refresh call
RCloseReturn(t) ==
    /\ task[t].pc = "r_close"
    /\ websocket' = None
    /\ task' = [task EXCEPT ![t].pc = RefreshOrBackoff, ![t].conn = None]
    /\ UNCHANGED <<running, reconnect_attempts, packet_id, conn, cmd, auth, entry,
                   registered, http_open, issued, now, codec, hist, call>>

\* a failed refresh taken for a failed attempt
RRefreshReturn_Aborts(t, out, e) ==
    /\ task[t].pc = "r_refresh"
    /\ IF out = "ok"
         THEN /\ issued < MaxIssued
              /\ issued' = issued + 1
              /\ auth' = RefreshApplied(auth, issued + 1, e)
              /\ entry' = Persisted(auth')
              /\ task' = [task EXCEPT ![t].pc = "r_backoff"]
         ELSE /\ task' = [task EXCEPT ![t].pc = "r_wait10"]
              /\ UNCHANGED <<issued, auth, entry>>
    /\ UNCHANGED <<websocket, running, reconnect_attempts, packet_id, conn, cmd,
                   registered, http_open, now, codec, hist, call>>

\* lines 303-310: the token endpoint answered
RRefreshReturn(t, out, e) ==
    /\ task[t].pc = "r_refresh"
    /\ IF out = "ok"
         THEN /\ issued < MaxIssued
              /\ issued' = issued + 1
              /\ auth' = RefreshApplied(auth, issued + 1, e)
              /\ entry' = Persisted(auth')
         ELSE UNCHANGED <<issued, auth, entry>>
    /\ task' = [task EXCEPT ![t].pc = "r_backoff"]
    /\ UNCHANGED <<websocket, running, reconnect_attempts, packet_id, conn, cmd,
                   registered, http_open, now, codec, hist, call>>

\* line 313: the backoff is over, connect_mqtt() is entered
RBackoffReturn(t) ==
    /\ task[t].pc = "r_backoff"
    /\ task' = [task EXCEPT ![t].pc = "c_open", ![t].rwr = TRUE,
                            ![t].nRefresh = 0, ![t].nConnect = 0]
    /\ hist' = [hist EXCEPT !.attemptsMade = @ + 1]
    /\ UNCHANGED <<websocket, running, reconnect_attempts, packet_id, conn, cmd,
                   auth, entry, registered, http_open, issued, now, codec, call>>

\* lines 319-321: the 10 s wait is over
RWaitReturn(t) ==
    /\ task[t].pc = "r_wait10"
    /\ IF MayRecurse
         THEN ReconnectStart(t, task[t], conn)
         ELSE /\ task' = [task EXCEPT ![t] = ReconnectReturned(task[t])]
              /\ UNCHANGED <<running, reconnect_attempts, conn>>
    /\ UNCHANGED <<websocket, packet_id, cmd, auth, entry, registered, http_open,
                   issued, now, codec, hist, call>>

-----------------------------------------------------------------------------
(* connect_mqtt, coordinator.py 135-212 *)

\* what recv() hands to connect_mqtt within the 5 s, or "timeout":
\* b0 is the first byte, len the length, rc the 4th byte
AckFrames == [timeout : BOOLEAN, b0 : {32, 144}, len : {2, 4, 5}, rc : {0, 1, 4, 5}]

\* line 172
IsConnAck(f) == f.len >= 4 /\ f.b0 = 32

\* every return code but 4 and 5 taken for an acceptance
Accepted_NotRefused(f) == f.rc \notin {4, 5}

\* line 174
Accepted(f) == f.rc = 0

\* the fields the code does not look at have one value: all of them after a
\* timeout, the 4th byte of a frame that is no Connect-Ack
AckOutcomes ==
    {f \in AckFrames :
        /\ f.timeout => (f.b0 = 32 /\ f.len = 4)
        /\ (f.timeout \/ ~IsConnAck(f)) => f.rc = 0}

\* line 177
RefreshAndRetry(f, rwr) == f.rc \in {4, 5} /\ rwr

\* the history after a step of connect_mqtt by task t up to the Connect-Ack:
\* a Connect-Ack 0 starts a new count, an attempt of the reconnect procedure
\* that fails without one is counted
HistConnect(t, accepted) ==
    IF accepted THEN [hist EXCEPT !.attemptsMade = 0, !.failed = 0]
    ELSE IF task'[t].pc = "r_wait10" THEN [hist EXCEPT !.failed = @ + 1]
    ELSE hist

\* lines 141-171: the transport connection is open (ok) or connect() raised.
\* The Connect frame is built from the credentials held now and sent.
OpenReturn(t, ok, maxc) ==
    /\ task[t].pc = "c_open"
    /\ IF ~ok
         THEN /\ task' = [task EXCEPT ![t] = ConnectFailed(task[t])]
              /\ UNCHANGED <<websocket, conn>>
         ELSE /\ nOpened < maxc
              /\ LET c == nOpened + 1 IN
                 /\ websocket' = c
                 /\ IF auth.access_token = None
                      THEN \* password.encode() raises on None
                           /\ conn' = [conn EXCEPT ![c].st = "open"]
                           /\ task' = [task EXCEPT ![t] = ConnectFailed(task[t])]
                      ELSE /\ conn' = [conn EXCEPT ![c].st = "open",
                                                   ![c].password = auth.access_token,
                                                   ![c].client = auth.sid]
                           /\ task' = [task EXCEPT ![t].pc = "c_ack", ![t].conn = c,
                                                   ![t].nConnect = @ + 1]
    /\ hist' = HistConnect(t, FALSE)
    /\ UNCHANGED <<running, reconnect_attempts, packet_id, cmd, auth, entry,
                   registered, http_open, issued, now, codec, call>>

\* the Subscribe sent before the wait at nextpc
SubscribeTopic(nextpc) == IF nextpc = "s1_ack" THEN TopicAccount ELSE TopicRealtime

\* lines 199-200 and 203-204: send one Subscribe on the current handle and call
\* recv() on it; r is the task record, nextpc where it waits for the answer
Subscribe(t, r, cn, nextpc) ==
    IF websocket = None
      THEN /\ task' = [task EXCEPT ![t] = ConnectFailed(r)]
           /\ conn' = cn
           /\ UNCHANGED packet_id
      ELSE /\ packet_id' = packet_id + 1
           /\ IF ~IsOpen(cn, websocket)
                THEN /\ task' = [task EXCEPT ![t] = ConnectFailed(r)]
                     /\ conn' = cn
                ELSE /\ conn' = [cn EXCEPT ![websocket].subs =
                                                 Append(@, SubscribeTopic(nextpc))]
                     /\ task' = [task EXCEPT ![t] =
                                    IF RecvBusy(websocket, t) THEN ConnectFailed(r)
                                    ELSE [r EXCEPT !.pc = nextpc, !.conn = websocket]]

\* lines 171-195: the wait for the CONNACK is over
AckReturn(t, f) ==
    /\ task[t].pc = "c_ack"
    /\ LET c == task[t].conn
           r == task[t]
           got == conn[c].st = "open" /\ ~f.timeout /\ IsConnAck(f) IN
       /\ IF ~got
            THEN /\ task' = [task EXCEPT ![t] = ConnectFailed(r)]
                 /\ UNCHANGED <<reconnect_attempts, packet_id, conn>>
            ELSE IF Accepted(f)
              THEN /\ reconnect_attempts' = 0
                   /\ Subscribe(t, r, [conn EXCEPT ![c].acked = TRUE], "s1_ack")
              ELSE IF RefreshAndRetry(f, r.rwr)
                THEN /\ task' = [task EXCEPT ![t] =
                                    IF RefreshFailsNow THEN ConnectFailed(r)
                                    ELSE [r EXCEPT !.pc = "c_refresh", !.conn = None,
                                                   !.nRefresh = @ + 1]]
                     /\ UNCHANGED <<reconnect_attempts, packet_id, conn>>
                ELSE /\ task' = [task EXCEPT ![t] = ConnectFailed(r)]
                     /\ UNCHANGED <<reconnect_attempts, packet_id, conn>>
       /\ hist' = HistConnect(t, got /\ Accepted(f))
    /\ UNCHANGED <<websocket, running, cmd, auth, entry, registered, http_open,
                   issued, now, codec, call>>

\* lines 181-189: the token endpoint answered the refresh of a rejected Connect
CRefreshReturn(t, out, e) ==
    /\ task[t].pc = "c_refresh"
    /\ IF out = "ok"
         THEN /\ issued < MaxIssued
              /\ issued' = issued + 1
              /\ auth' = RefreshApplied(auth, issued + 1, e)
              /\ entry' = Persisted(auth')
              /\ IF websocket = None
                   THEN /\ task' = [task EXCEPT ![t] = ConnectFailed(task[t])]
                        /\ UNCHANGED conn
                   ELSE /\ conn' = CloseConn(conn, websocket)
                        /\ task' = [task EXCEPT ![t].pc = "c_close",
                                                ![t].conn = websocket]
         ELSE /\ task' = [task EXCEPT ![t] = ConnectFailed(task[t])]
              /\ UNCHANGED <<issued, auth, entry, conn>>
    /\ hist' = HistConnect(t, FALSE)
    /\ UNCHANGED <<websocket, running, reconnect_attempts, packet_id, cmd,
                   registered, http_open, now, codec, call>>

\* lines 186-187: close() returned; connect_mqtt(retry_with_refresh=False)
CCloseReturn(t) ==
    /\ task[t].pc = "c_close"
    /\ websocket' = None
    /\ task' = [task EXCEPT ![t].pc = "c_open", ![t].conn = None, ![t].rwr = FALSE]
    /\ UNCHANGED <<running, reconnect_attempts, packet_id, conn, cmd, auth, entry,
                   registered, http_open, issued, now, codec, hist, call>>

\* what the broker may deliver while connect_mqtt waits after a Subscribe:
\* the Subscribe-Ack, or a Publish on a topic already subscribed (the broker
\* may send matching Publish frames before the Subscribe-Ack)
SubFrames == {"suback", "publish"}

\* lines 200 and 204: recv() returned frame fr on connection c; the code
\* does not look at it. A recv() that raises returns no frame: fr has one
\* value then
Consumed(cn, c, fr) == [cn EXCEPT ![c].consumed = Append(@, fr)]

\* lines 200-204: a frame came in answer to the first Subscribe, or recv() raised
S1Return(t, fr) ==
    /\ task[t].pc = "s1_ack"
    /\ IF conn[task[t].conn].st # "open"
         THEN /\ fr = "suback"
              /\ task' = [task EXCEPT ![t] = ConnectFailed(task[t])]
              /\ UNCHANGED <<packet_id, conn>>
         ELSE Subscribe(t, task[t], Consumed(conn, task[t].conn, fr), "s2_ack")
    /\ UNCHANGED <<websocket, running, reconnect_attempts, cmd, auth, entry,
                   registered, http_open, issued, now, codec, hist, call>>

\* lines 208-212: the two loops are created in the two lowest free slots
Spawned(tk) ==
    LET a == Min(FreeLoops(tk))
        b == Min(FreeLoops(tk) \ {a}) IN
    [tk EXCEPT ![a] = [IdleTask EXCEPT !.kind = "listen", !.pc = "l_start"],
               ![b] = [IdleTask EXCEPT !.kind = "keepalive", !.pc = "k_start"]]

\* where a task continues when connect_mqtt returns
ConnectReturned(r) ==
    IF r.kind = "setup" THEN [IdleTask EXCEPT !.kind = "setup", !.pc = "x_forward"]
    ELSE ReconnectReturned(r)

\* lines 204-212: a frame came in answer to the second Subscribe, or recv() raised.
\* A loop that ran the reconnect procedure ends with this step (lines 245, 269,
\* 281: break), before the loops created here run their first step; maxl
\* bounds the loops alive after the step
S2Return(t, fr, maxl) ==
    /\ task[t].pc = "s2_ack"
    /\ IF conn[task[t].conn].st # "open"
         THEN /\ fr = "suback"
              /\ task' = [task EXCEPT ![t] = ConnectFailed(task[t])]
              /\ UNCHANGED <<running, registered, conn>>
         ELSE LET tk == [task EXCEPT ![t] = ConnectReturned(task[t])] IN
              /\ Cardinality(FreeLoops(tk)) >= 2
              /\ Cardinality(LoopIds \ FreeLoops(tk)) + 2 <= maxl
              /\ running' = TRUE
              /\ task' = Spawned(tk)
              /\ registered' = (registered \/ task[t].kind = "setup")
              /\ conn' = Consumed(conn, task[t].conn, fr)
    /\ UNCHANGED <<websocket, reconnect_attempts, packet_id, cmd, auth, entry,
                   http_open, issued, now, codec, hist, call>>

-----------------------------------------------------------------------------
(* The inbound loop, coordinator.py 247-282 *)

\* lines 249-251: the loop condition and the recv() call
ListenHead(t, r, cn) ==
    IF running /\ websocket # None
      THEN IF RecvBusy(websocket, t)
             THEN ReconnectStart(t, r, cn)
             ELSE /\ task' = [task EXCEPT ![t] = [r EXCEPT !.pc = "l_recv",
                                                            !.conn = websocket]]
                  /\ conn' = cn
                  /\ UNCHANGED <<running, reconnect_attempts>>
      ELSE /\ task' = [task EXCEPT ![t] = IdleTask]
           /\ conn' = cn
           /\ UNCHANGED <<running, reconnect_attempts>>

ListenStart(t) ==
    /\ task[t].pc = "l_start"
    /\ ListenHead(t, task[t], conn)
    /\ UNCHANGED <<websocket, packet_id, cmd, auth, entry, registered, http_open,
                   issued, now, codec, hist, call>>

\* what a recv() of the loop ends with on an open connection: a frame the loop
\* handles or ignores, a frame whose parsing raises (empty, text, truncated
\* topic), or the 60 s timeout
ListenOutcomes == {"frame", "junk", "timeout"}

\* lines 251-282
ListenRecv(t, out) ==
    /\ task[t].pc = "l_recv"
    /\ IF conn[task[t].conn].st = "open" /\ out = "frame"
         THEN ListenHead(t, task[t], conn)
         ELSE ReconnectStart(t, task[t], conn)
    /\ UNCHANGED <<websocket, packet_id, cmd, auth, entry, registered, http_open,
                   issued, now, codec, hist, call>>

-----------------------------------------------------------------------------
(* The keepalive loop, coordinator.py 232-245 *)

\* line 234
KeepaliveHead(r) ==
    IF running /\ websocket # None THEN [r EXCEPT !.pc = "k_sleep"] ELSE IdleTask

KeepaliveStart(t) ==
    /\ task[t].pc = "k_start"
    /\ task' = [task EXCEPT ![t] = KeepaliveHead(task[t])]
    /\ UNCHANGED <<websocket, running, reconnect_attempts, packet_id, conn, cmd,
                   auth, entry, registered, http_open, issued, now, codec, hist, call>>

\* lines 236-245: the 30 s sleep is over
KeepaliveWake(t) ==
    /\ task[t].pc = "k_sleep"
    /\ IF websocket # None /\ running /\ ~IsOpen(conn, websocket)
         THEN ReconnectStart(t, task[t], conn)
         ELSE /\ task' = [task EXCEPT ![t] = KeepaliveHead(task[t])]
              /\ UNCHANGED <<running, reconnect_attempts, conn>>
    /\ UNCHANGED <<websocket, packet_id, cmd, auth, entry, registered, http_open,
                   issued, now, codec, hist, call>>

\* the peer or the network ends a connection the session still holds (the end
\* of a connection that no handle and no pending call refers to changes nothing)
Drop(c) ==
    /\ conn[c].st = "open"
    /\ websocket = c \/ \E u \in TaskIds : task[u].conn = c
    /\ conn' = CloseConn(conn, c)
    /\ UNCHANGED <<websocket, running, reconnect_attempts, packet_id, task, cmd,
                   auth, entry, registered, http_open, issued, now, codec, hist, call>>

-----------------------------------------------------------------------------
(* Commands, coordinator.py 329-405 *)

\* lines 329-338
IsWebsocketConnected == IsOpen(conn, websocket)

\* line 362
PublishTopic == <<"client", "device_id">>

\* the command in progress: n commands were started; retry is the retry
\* parameter of the running invocation; tries, reconn, sends and written count
\* the invocations of _send_zone_command, of the reconnect procedure, the
\* send() calls and the Publish frames the transport took
NoCmd == [n |-> 0, retry |-> FALSE, tries |-> 0, reconn |-> 0, sends |-> 0,
          written |-> 0, topic |-> <<>>, result |-> "none"]

\* a send() that raises after the transport took the frame
SendZoneCommand_WroteThenRaised(t, cm0, sendok) ==
    LET cm == [cm0 EXCEPT !.tries = @ + 1] IN
    IF ~IsWebsocketConnected
      THEN IF cm.retry
             THEN /\ cmd' = [cm EXCEPT !.reconn = @ + 1]
                  /\ ReconnectStart(t, task[t], conn)
             ELSE /\ cmd' = [cm EXCEPT !.result = "fail"]
                  /\ task' = [task EXCEPT ![t].pc = "m_done"]
                  /\ UNCHANGED <<running, reconnect_attempts, conn>>
      ELSE IF sendok \/ ~cm.retry
             THEN /\ cmd' = [cm EXCEPT !.sends = @ + 1, !.written = @ + 1,
                                       !.topic = PublishTopic, !.result = "ok"]
                  /\ conn' = [conn EXCEPT ![websocket].pubs = @ + 1]
                  /\ task' = [task EXCEPT ![t].pc = "m_done"]
                  /\ UNCHANGED <<running, reconnect_attempts>>
             ELSE /\ cmd' = [cm EXCEPT !.sends = @ + 1, !.written = @ + 1,
                                       !.reconn = @ + 1]
                  /\ ReconnectStart(t, task[t], conn)

\* lines 340-376, run by the command task t with the retry flag of cm;
\* sendok: the transport takes the frame
SendZoneCommand(t, cm0, sendok) ==
    LET cm == [cm0 EXCEPT !.tries = @ + 1] IN
    IF ~IsWebsocketConnected
      THEN IF cm.retry
             THEN /\ cmd' = [cm EXCEPT !.reconn = @ + 1]
                  /\ ReconnectStart(t, task[t], conn)
             ELSE /\ cmd' = [cm EXCEPT !.result = "fail"]
                  /\ task' = [task EXCEPT ![t].pc = "m_done"]
                  /\ UNCHANGED <<running, reconnect_attempts, conn>>
      ELSE IF sendok
             THEN /\ cmd' = [cm EXCEPT !.sends = @ + 1, !.written = @ + 1,
                                       !.topic = PublishTopic, !.result = "ok"]
                  /\ conn' = [conn EXCEPT ![websocket].pubs = @ + 1]
                  /\ task' = [task EXCEPT ![t].pc = "m_done"]
                  /\ UNCHANGED <<running, reconnect_attempts>>
             ELSE IF cm.retry
                    THEN /\ cmd' = [cm EXCEPT !.sends = @ + 1, !.reconn = @ + 1]
                         /\ ReconnectStart(t, task[t], CloseConn(conn, websocket))
                    ELSE /\ cmd' = [cm EXCEPT !.sends = @ + 1, !.result = "fail"]
                         /\ conn' = CloseConn(conn, websocket)
                         /\ task' = [task EXCEPT ![t].pc = "m_done"]
                         /\ UNCHANGED <<running, reconnect_attempts>>

CmdOps == {"set_temperature", "set_operation_mode", "set_light_ring"}

\* lines 378-405: an entity calls one of the three commands
CmdStart(op, sendok) ==
    /\ task[CmdT].pc = "m_idle"
    /\ registered
    /\ cmd.n < MaxCmds
    /\ SendZoneCommand(CmdT, [NoCmd EXCEPT !.n = cmd.n + 1, !.retry = TRUE], sendok)
    /\ UNCHANGED <<websocket, packet_id, auth, entry, registered, http_open,
                   issued, now, codec, hist, call>>

\* the retry made with retry left at True
CmdRetry_RetryAgain(sendok) ==
    /\ task[CmdT].pc = "m_sleep"
    /\ SendZoneCommand(CmdT, [cmd EXCEPT !.retry = TRUE], sendok)
    /\ UNCHANGED <<websocket, packet_id, auth, entry, registered, http_open,
                   issued, now, codec, hist, call>>

\* lines 347-348 and 373-374: the 1 s sleep is over, the send is retried
CmdRetry(sendok) ==
    /\ task[CmdT].pc = "m_sleep"
    /\ SendZoneCommand(CmdT, [cmd EXCEPT !.retry = FALSE], sendok)
    /\ UNCHANGED <<websocket, packet_id, auth, entry, registered, http_open,
                   issued, now, codec, hist, call>>

\* the command has returned or raised: the entity takes the outcome
CmdReturn ==
    /\ task[CmdT].pc = "m_done"
    /\ task' = [task EXCEPT ![CmdT].pc = "m_idle"]
    /\ cmd' = [NoCmd EXCEPT !.n = cmd.n]
    /\ UNCHANGED <<websocket, running, reconnect_attempts, packet_id, conn, auth,
                   entry, registered, http_open, issued, now, codec, hist, call>>

-----------------------------------------------------------------------------
(* disconnect, coordinator.py 407-414, called by async_unload_entry,
   __init__.py 118-129 *)

\* __init__.py 121-126 and coordinator.py 409-412
Unload ==
    /\ task[UnlT].pc = "u_idle"
    /\ registered
    /\ registered' = FALSE
    /\ running' = FALSE
    /\ IF websocket # None
         THEN /\ conn' = CloseConn(conn, websocket)
              /\ task' = [task EXCEPT ![UnlT].pc = "d_close", ![UnlT].conn = websocket]
              /\ UNCHANGED <<http_open, hist>>
         ELSE /\ task' = [task EXCEPT ![UnlT].pc = "u_done"]
              /\ http_open' = FALSE
              /\ hist' = [hist EXCEPT !.disconnected = TRUE]
              /\ UNCHANGED conn
    /\ UNCHANGED <<websocket, reconnect_attempts, packet_id, cmd, auth, entry,
                   issued, now, codec, call>>

\* coordinator.py 413-414 and __init__.py 126: close() returned
DisconnectClosed ==
    /\ task[UnlT].pc = "d_close"
    /\ websocket' = None
    /\ http_open' = FALSE
    /\ hist' = [hist EXCEPT !.disconnected = TRUE]
    /\ task' = [task EXCEPT ![UnlT].pc = "u_done", ![UnlT].conn = None]
    /\ UNCHANGED <<running, reconnect_attempts, packet_id, conn, cmd, auth, entry,
                   registered, issued, now, codec, call>>

-----------------------------------------------------------------------------
(* The session after a successful setup *)
\* no codec function has been applied
NoCodec == [op |-> "none"]

\* the fields of the auth client; expires_from is the token response that
\* expires_at was computed from
NoAuth == [access_token |-> None, refresh_token |-> None, sid |-> None,
           expires_at |-> None, request_id |-> None, track_id |-> None,
           sub |-> None, exchange_id |-> None, status_id |-> None, code |-> None,
           expires_from |-> None]

\* the auth-client call last made: its name, what the caller got, the HTTP
\* requests it issued, the refresh_access_token() calls it made, the answer
\* to its last request; turn flips with every call
NoCall == [op |-> "none", result |-> "none", requests |-> 0, refreshes |-> 0,
           http |-> "none", turn |-> FALSE]

\* disconnected: disconnect() has run; attemptsMade, failed: the connection
\* attempts the reconnect procedure has made, and those of them that failed,
\* since the last Connect-Ack 0; done: the steps of the login flow that have
\* succeeded on this auth client
NoHist == [disconnected |-> FALSE, attemptsMade |-> 0, failed |-> 0, done |-> {}]

Init ==
    /\ websocket = 1
    /\ running = TRUE
    /\ reconnect_attempts = 0
    /\ packet_id = 3
    /\ conn = [c \in ConnIds |->
                 IF c = 1 THEN [NewConn EXCEPT !.st = "open", !.acked = TRUE,
                                               !.subs = <<TopicAccount, TopicRealtime>>,
                                               !.consumed = <<"suback", "suback">>,
                                               !.password = 1, !.client = 1]
                 ELSE NewConn]
    /\ task = [t \in TaskIds |->
                 IF t = 1 THEN [IdleTask EXCEPT !.kind = "listen", !.pc = "l_start"]
                 ELSE IF t = 2 THEN [IdleTask EXCEPT !.kind = "keepalive", !.pc = "k_start"]
                 ELSE IF t = CmdT THEN [IdleTask EXCEPT !.kind = "cmd", !.pc = "m_idle"]
                 ELSE IF t = UnlT THEN [IdleTask EXCEPT !.kind = "unload", !.pc = "u_idle"]
                 ELSE IF t = SetupT THEN [IdleTask EXCEPT !.kind = "setup", !.pc = "x_done"]
                 ELSE IdleTask]
    /\ cmd = NoCmd
    /\ now = 1
    /\ auth = [NoAuth EXCEPT !.access_token = 1, !.refresh_token = 1, !.sid = 1,
                             !.expires_at = 1 + DefaultExpiresInMin,
                             !.expires_from = 1]
    /\ entry = Creds(auth)
    /\ registered = TRUE
    /\ http_open = TRUE
    /\ issued = 1
    /\ hist = NoHist
    /\ call = NoCall
    /\ codec = NoCodec

ConnectStep(t, maxc, maxl) ==
    \/ \E ok \in BOOLEAN : OpenReturn(t, ok, maxc)
    \/ \E f \in AckOutcomes : AckReturn(t, f)
    \/ \E out \in RefreshOutcomes, e \in ExpiresIn : CRefreshReturn(t, out, e)
    \/ CCloseReturn(t)
    \/ \E fr \in SubFrames : S1Return(t, fr)
    \/ \E fr \in SubFrames : S2Return(t, fr, maxl)

ReconnectStep(t) ==
    \/ RCloseReturn(t)
    \/ \E out \in RefreshOutcomes, e \in ExpiresIn : RRefreshReturn(t, out, e)
    \/ RBackoffReturn(t)
    \/ RWaitReturn(t)

LoopStep(t) ==
    \/ ListenStart(t)
    \/ \E out \in ListenOutcomes : ListenRecv(t, out)
    \/ KeepaliveStart(t)
    \/ KeepaliveWake(t)

\* the session with its two loops, until it is unloaded
Next ==
    \/ \E t \in LoopIds : ConnectStep(t, MaxConn, MaxAlive)
    \/ \E t \in LoopIds : ReconnectStep(t)
    \/ \E t \in LoopIds : LoopStep(t)
    \/ \E c \in ConnIds : Drop(c)
    \/ Unload
    \/ DisconnectClosed

Spec == Init /\ [][Next]_vars

\* the session with its two loops and the commands of an entity
CmdNext ==
    \/ \E t \in LoopIds \cup {CmdT} : ConnectStep(t, MaxConnCmd, MaxLoops)
    \/ \E t \in LoopIds \cup {CmdT} : ReconnectStep(t)
    \/ \E t \in LoopIds : LoopStep(t)
    \/ \E c \in ConnIds : Drop(c)
    \/ \E op \in CmdOps, sendok \in BOOLEAN : CmdStart(op, sendok)
    \/ \E sendok \in BOOLEAN : CmdRetry(sendok)
    \/ CmdReturn

CmdSpec == Init /\ [][CmdNext]_vars

-----------------------------------------------------------------------------
(* Auth client, auth.py. One caller makes the calls one after the other, as
   the config flow does; time is counted in minutes *)

\* the answer to one HTTP request: the status the handler looks for, another
\* status, or the request raised
HttpOutcomes == {"success", "status", "error"}

\* the answers of the token endpoint to a refresh: those of any request, and
\* a 200 whose body has an expires_in that is no number
TokenOutcomes == HttpOutcomes \cup {"malformed"}

\* the lifetimes a token endpoint grants (expires_in, in minutes)
AuthExpiresIn == {3, 8, DefaultExpiresInMin}

sessVars == <<websocket, running, reconnect_attempts, packet_id, conn, task, cmd,
              entry, registered, http_open>>

\* the step has succeeded when the call just made says so
Succeeded(step, result) ==
    IF call'.result = result THEN [hist EXCEPT !.done = @ \cup {step}] ELSE hist

Called(op, result, requests, refreshes, http) ==
    [op |-> op, result |-> result, requests |-> requests, refreshes |-> refreshes,
     http |-> http, turn |-> ~call.turn]

\* what a handler does with the answer to its one request
Answered(op, out, onSuccess, requests) ==
    Called(op, IF out = "success" THEN onSuccess
               ELSE IF out = "status" THEN "false" ELSE "raise_request",
           requests, 0, out)

\* lines 56-90: request_id is taken from the redirect's Location when it is there
StartApplied(a, out, rid) ==
    IF out = "success" /\ rid THEN [a EXCEPT !.request_id = 1] ELSE a

StartAuthorizationFlow(out, rid) ==
    /\ auth' = StartApplied(auth, out, rid)
    /\ call' = Called("start_authorization_flow",
                      IF out = "error" THEN "raise_request" ELSE "none", 1, 0, out)
    /\ hist' = IF out = "success" /\ rid
                 THEN [hist EXCEPT !.done = @ \cup {"start_authorization_flow"}]
                 ELSE hist
    /\ UNCHANGED <<sessVars, issued, now, codec>>

LoginAnswers == [track: BOOLEAN, sub: BOOLEAN, rid: BOOLEAN]

\* lines 92-129: without a request_id the authorization is started first; a
\* 302 is a success whatever its Location carries. sout and srid, the answer
\* to the authorization request, are inputs only when that request is made
Login(sout, srid, out, f) ==
    LET start == auth.request_id = None
        a1 == IF start THEN StartApplied(auth, sout, srid) ELSE auth
        n == IF start THEN 1 ELSE 0 IN
    /\ ~start => (sout = "success" /\ srid)
    /\ IF start /\ sout = "error"
         THEN /\ auth' = auth
              /\ call' = Called("login", "raise_request", 1, 0, sout)
         ELSE /\ auth' = IF out = "success"
                           THEN [a1 EXCEPT !.track_id = IF f.track THEN 1 ELSE None,
                                           !.sub = IF f.sub THEN 1 ELSE None,
                                           !.request_id = IF f.rid THEN 1 ELSE @]
                           ELSE a1
              /\ call' = Answered("login", out, "true", n + 1)
    /\ hist' = LET h == Succeeded("login", "true") IN
               IF start /\ sout = "success" /\ srid
                 THEN [h EXCEPT !.done = @ \cup {"start_authorization_flow"}]
                 ELSE h
    /\ UNCHANGED <<sessVars, issued, now, codec>>

\* the guard with its request_id test left out
InitiateGuard_SubOnly(a) == a.sub = None

\* lines 133-134
InitiateGuard(a) == a.sub = None \/ a.request_id = None

MfaAnswers == [exchange: BOOLEAN, status: BOOLEAN]

\* lines 131-176: the guard, the list of configured methods (any failure of
\* it is swallowed), then the initiation itself
InitiateMfaEmail(out, f) ==
    /\ IF InitiateGuard(auth)
         THEN /\ auth' = auth
              /\ call' = Called("initiate_mfa_email", "raise_guard", 0, 0, "none")
         ELSE /\ auth' = IF out = "success"
                           THEN [auth EXCEPT
                                   !.exchange_id = IF f.exchange THEN 1 ELSE None,
                                   !.status_id = IF f.status THEN 1 ELSE None]
                           ELSE auth
              /\ call' = Answered("initiate_mfa_email", out, "true", 2)
    /\ hist' = Succeeded("initiate_mfa_email", "true")
    /\ UNCHANGED <<sessVars, issued, now, codec>>

\* the body of a 200 answer to the verification: success true; success false
\* or absent, with an error object or none; the same with an error that is
\* no object
VerifyBodies == {"success", "rejected", "rejected_text"}

\* the answer as the handler tells it apart: the body of a 200, else the
\* outcome of the request
VerifyAnswer(out, body) == IF out = "success" THEN body ELSE out

\* any 200 taken for a verified code
VerifyResult_StatusOnly(out, body) ==
    IF out = "success" THEN "true"
    ELSE IF out = "status" THEN "false" ELSE "raise_request"

\* lines 192-211: what verify_mfa_code() gives its caller. A 200 whose body
\* says success is the only True; data.get("error", {}).get raises on an error
\* that is no object
VerifyResult(out, body) ==
    IF out = "success"
      THEN IF body = "success" THEN "true"
           ELSE IF body = "rejected" THEN "false" ELSE "raise_body"
      ELSE IF out = "status" THEN "false" ELSE "raise_request"

\* lines 178-211: the guard, then the one request; no field is assigned
VerifyMfaCode(out, body) ==
    /\ out # "success" => body = "success"
    /\ auth' = auth
    /\ call' = IF auth.exchange_id = None \/ auth.sub = None
                 THEN Called("verify_mfa_code", "raise_guard", 0, 0, "none")
                 ELSE Called("verify_mfa_code", VerifyResult(out, body), 1, 0,
                             VerifyAnswer(out, body))
    /\ hist' = Succeeded("verify_mfa_code", "true")
    /\ UNCHANGED <<sessVars, issued, now, codec>>

\* lines 213-258: the guard looks at track_id, status_id and sub
CompleteMfaLogin(out, hasCode) ==
    /\ IF auth.track_id = None \/ auth.status_id = None \/ auth.sub = None
         THEN /\ auth' = auth
              /\ call' = Called("complete_mfa_login", "raise_guard", 0, 0, "none")
         ELSE /\ auth' = IF out = "success"
                           THEN [auth EXCEPT !.code = IF hasCode THEN 1 ELSE None]
                           ELSE auth
              /\ call' = Answered("complete_mfa_login", out,
                                  IF hasCode THEN "true" ELSE "false", 1)
    /\ hist' = Succeeded("complete_mfa_login", "true")
    /\ UNCHANGED <<sessVars, issued, now, codec>>

\* lines 260-286: the guard, then the exchange; a 200 sets the four fields
GetTokens(out, e) ==
    /\ IF auth.code = None
         THEN /\ call' = Called("get_tokens", "raise_guard", 0, 0, "none")
              /\ UNCHANGED <<auth, issued>>
         ELSE IF out = "success"
           THEN /\ issued < MaxIssued
                /\ issued' = issued + 1
                /\ auth' = RefreshApplied(auth, issued + 1, e)
                /\ call' = Called("get_tokens", "data", 1, 0, out)
           ELSE /\ call' = Called("get_tokens",
                                  IF out = "status" THEN "raise_status"
                                  ELSE "raise_request", 1, 0, out)
                /\ UNCHANGED <<auth, issued>>
    /\ hist' = Succeeded("get_tokens", "data")
    /\ UNCHANGED <<sessVars, now, codec>>

\* lines 297-308, every field assigned whatever the status
RefreshResult_AssignsBeforeCheck(a, out, g, e) ==
    IF out = "error" THEN a ELSE RefreshApplied(a, g, e)

\* lines 297-308: only a 200 touches the fields
RefreshResult(a, out, g, e) ==
    IF out = "success" THEN RefreshApplied(a, g, e)
    ELSE IF out = "malformed" THEN RefreshTorn(a, g) ELSE a

\* what refresh_access_token() gives its caller, lines 290-291 and 297-308
RefreshRaises(a, out) ==
    IF a.refresh_token = None THEN "raise_guard"
    ELSE IF out = "success" THEN "none"
    ELSE IF out = "malformed" THEN "raise_body"
    ELSE IF out = "status" THEN "raise_status" ELSE "raise_request"

\* the token endpoint has issued new tokens
Granted(out) == out \in {"success", "malformed"}

\* lines 288-308, called as op or from within op
RefreshCall(op, out, e, onSuccess) ==
    LET r == RefreshRaises(auth, out)
        sent == auth.refresh_token # None IN
    /\ Granted(out) /\ sent => issued < MaxIssued
    /\ issued' = IF Granted(out) /\ sent THEN issued + 1 ELSE issued
    /\ auth' = IF sent THEN RefreshResult(auth, out, issued + 1, e) ELSE auth
    /\ call' = Called(op, IF r = "none" THEN onSuccess ELSE r,
                      IF sent THEN 1 ELSE 0, 1, IF sent THEN out ELSE "none")

RefreshAccessToken(out, e) ==
    /\ RefreshCall("refresh_access_token", out, e, "data")
    /\ UNCHANGED <<sessVars, hist, now, codec>>

\* line 316, the margin left out
TokenExpiring_NoMargin(a, n) ==
    a.expires_at # None /\ n >= a.expires_at

\* line 316: the token expires within the margin
TokenExpiring(a, n) ==
    a.expires_at # None /\ n >= a.expires_at - RefreshMarginMin

\* lines 310-322
GetValidToken(out, e) ==
    /\ IF auth.access_token = None
         THEN /\ call' = Called("get_valid_token", "raise_guard", 0, 0, "none")
              /\ UNCHANGED <<auth, issued>>
         ELSE IF TokenExpiring(auth, now)
           THEN RefreshCall("get_valid_token", out, e, "token")
           ELSE /\ call' = Called("get_valid_token", "token", 0, 0, "none")
                /\ UNCHANGED <<auth, issued>>
    /\ UNCHANGED <<sessVars, hist, now, codec>>

\* a minute passes
Tick ==
    /\ now < MaxNow
    /\ now' = now + 1
    /\ UNCHANGED <<sessVars, hist, auth, issued, call, codec>>

\* config_flow.py 34-36: the data of the flow, which becomes the data of the
\* entry, holds the e-mail address, the password and the installation id; of
\* the four credential fields it holds none
FlowData == Creds(NoAuth)

\* config_flow.py 89-98, after get_tokens() of line 87 has returned: the
\* session is closed and the entry is created from the data of the flow
AsyncCreateEntry ==
    /\ call.op = "get_tokens" /\ call.result = "data"
    /\ http_open
    /\ http_open' = FALSE
    /\ entry' = FlowData
    /\ call' = Called("async_create_entry", "entry", 0, 0, "none")
    /\ hist' = Succeeded("async_create_entry", "entry")
    /\ UNCHANGED <<websocket, running, reconnect_attempts, packet_id, conn, task,
                   cmd, auth, registered, issued, now, codec>>

\* config_flow.py 40: a new auth client, no session yet
AuthInit ==
    /\ websocket = None
    /\ running = FALSE
    /\ reconnect_attempts = 0
    /\ packet_id = 1
    /\ conn = [c \in ConnIds |-> NewConn]
    /\ task = [t \in TaskIds |-> IdleTask]
    /\ cmd = NoCmd
    /\ now = 1
    /\ auth = NoAuth
    /\ entry = Creds(NoAuth)
    /\ registered = FALSE
    /\ http_open = TRUE
    /\ issued = 0
    /\ hist = NoHist
    /\ call = NoCall
    /\ codec = NoCodec

\* the onboarding of the config flow, up to the token exchange
AuthNext ==
    \/ \E out \in HttpOutcomes, rid \in BOOLEAN : StartAuthorizationFlow(out, rid)
    \/ \E sout, out \in HttpOutcomes, srid \in BOOLEAN, f \in LoginAnswers :
          Login(sout, srid, out, f)
    \/ \E out \in HttpOutcomes, f \in MfaAnswers : InitiateMfaEmail(out, f)
    \/ \E out \in HttpOutcomes, body \in VerifyBodies : VerifyMfaCode(out, body)
    \/ \E out \in HttpOutcomes, hasCode \in BOOLEAN : CompleteMfaLogin(out, hasCode)
    \/ \E out \in HttpOutcomes, e \in ExpiresIn : GetTokens(out, e)
    \/ AsyncCreateEntry

AuthSpec == AuthInit /\ [][AuthNext]_vars

\* an auth client that holds tokens, as get_tokens() or the restore of
\* __init__.py 36-47 leaves it; a saved entry may lack expires_at
TokenInit ==
    /\ websocket = None
    /\ running = FALSE
    /\ reconnect_attempts = 0
    /\ packet_id = 1
    /\ conn = [c \in ConnIds |-> NewConn]
    /\ task = [t \in TaskIds |-> IdleTask]
    /\ cmd = NoCmd
    /\ now = 1
    /\ \E x \in {None} \cup {now + e : e \in AuthExpiresIn} :
          auth = [NoAuth EXCEPT !.access_token = 1, !.refresh_token = 1, !.sid = 1,
                                !.expires_at = x, !.expires_from = 1]
    /\ entry = Creds(auth)
    /\ registered = FALSE
    /\ http_open = TRUE
    /\ issued = 1
    /\ hist = NoHist
    /\ call = NoCall
    /\ codec = NoCodec

\* the token calls of a client that holds tokens, as time passes
TokenNext ==
    \/ \E out \in TokenOutcomes, e \in AuthExpiresIn : RefreshAccessToken(out, e)
    \/ \E out \in TokenOutcomes, e \in AuthExpiresIn : GetValidToken(out, e)
    \/ Tick

TokenSpec == TokenInit /\ [][TokenNext]_vars

-----------------------------------------------------------------------------
(* Setup of an entry, __init__.py 21-115, run by the task SetupT *)

\* auth.py 310-322 at the head of introspect_token() and get_install_data():
\* the refresh request is sent first when the token is expiring
AfterGetValidToken(a, refreshPc, requestPc) ==
    IF TokenExpiring(a, now) THEN refreshPc ELSE requestPc

\* lines 29-51 and 63-68: the tokens of the entry are restored and
\* introspect_token() is called; an entry without tokens ends the setup
SetupStart ==
    /\ task[SetupT].pc = "x_start"
    /\ IF entry.access_token = None \/ entry.refresh_token = None
         THEN /\ http_open' = FALSE
              /\ task' = [task EXCEPT ![SetupT].pc = "x_failed"]
              /\ auth' = auth
         ELSE /\ auth' = [NoAuth EXCEPT !.access_token = entry.access_token,
                                        !.refresh_token = entry.refresh_token,
                                        !.sid = entry.sid,
                                        !.expires_at = entry.expires_at,
                                        !.expires_from = entry.access_token]
              /\ task' = [task EXCEPT ![SetupT].pc =
                            AfterGetValidToken(auth', "x_gvt1", "x_introspect")]
              /\ http_open' = http_open
    /\ UNCHANGED <<websocket, running, reconnect_attempts, packet_id, conn, cmd,
                   entry, registered, issued, now, codec, hist, call>>

\* auth.py 318 within introspect_token(): the refresh was answered; nothing
\* is written to the entry. A failure is caught at __init__.py 52
SetupGvt1Return(out, e) ==
    /\ task[SetupT].pc = "x_gvt1"
    /\ out = "success" => issued < MaxIssued
    /\ issued' = IF out = "success" THEN issued + 1 ELSE issued
    /\ auth' = RefreshResult(auth, out, issued + 1, e)
    /\ task' = [task EXCEPT ![SetupT].pc =
                  IF out = "success" THEN "x_introspect" ELSE "x_fallback"]
    /\ UNCHANGED <<websocket, running, reconnect_attempts, packet_id, conn, cmd,
                   entry, registered, http_open, now, codec, hist, call>>

IntrospectOutcomes == {"active", "inactive", "status", "error"}

\* lines 51-55 and 76: the introspection was answered; get_install_data() is
\* called when the token is active, refresh_access_token() otherwise
SetupIntrospectReturn(out) ==
    /\ task[SetupT].pc = "x_introspect"
    /\ task' = [task EXCEPT ![SetupT].pc =
                  IF out = "active" THEN AfterGetValidToken(auth, "x_gvt2", "x_install")
                  ELSE "x_fallback"]
    /\ UNCHANGED <<websocket, running, reconnect_attempts, packet_id, conn, cmd,
                   auth, entry, registered, http_open, issued, now, codec, hist, call>>

\* lines 55-66 and 76: the fallback refresh was answered; its tokens are
\* written to the entry, a failure ends the setup
SetupFallbackReturn(out, e) ==
    /\ task[SetupT].pc = "x_fallback"
    /\ out = "success" => issued < MaxIssued
    /\ issued' = IF out = "success" THEN issued + 1 ELSE issued
    /\ auth' = RefreshResult(auth, out, issued + 1, e)
    /\ entry' = IF out = "success" THEN Creds(auth') ELSE entry
    /\ http_open' = (http_open /\ out = "success")
    /\ task' = [task EXCEPT ![SetupT].pc =
                  IF out = "success"
                    THEN AfterGetValidToken(auth', "x_gvt2", "x_install")
                    ELSE "x_failed"]
    /\ UNCHANGED <<websocket, running, reconnect_attempts, packet_id, conn, cmd,
                   registered, now, codec, hist, call>>

\* auth.py 318 within get_install_data(): the refresh was answered; nothing
\* is written to the entry
SetupGvt2Return(out, e) ==
    /\ task[SetupT].pc = "x_gvt2"
    /\ out = "success" => issued < MaxIssued
    /\ issued' = IF out = "success" THEN issued + 1 ELSE issued
    /\ auth' = RefreshResult(auth, out, issued + 1, e)
    /\ task' = [task EXCEPT ![SetupT].pc =
                  IF out = "success" THEN "x_install" ELSE "x_fail"]
    /\ UNCHANGED <<websocket, running, reconnect_attempts, packet_id, conn, cmd,
                   entry, registered, http_open, now, codec, hist, call>>

\* lines 76-101: the installation data came (ok) with an installation in it;
\* the coordinator is created and connect_mqtt() is called
SetupInstallReturn(ok) ==
    /\ task[SetupT].pc = "x_install"
    /\ task' = [task EXCEPT ![SetupT] =
                  IF ok THEN [IdleTask EXCEPT !.kind = "setup", !.pc = "c_open",
                                              !.rwr = TRUE]
                  ELSE [@ EXCEPT !.pc = "x_fail"]]
    /\ UNCHANGED <<websocket, running, reconnect_attempts, packet_id, conn, cmd,
                   auth, entry, registered, http_open, issued, now, codec, hist, call>>

\* lines 107-110: the platforms were set up (ok), the setup is complete
SetupForwardReturn(ok) ==
    /\ task[SetupT].pc = "x_forward"
    /\ task' = [task EXCEPT ![SetupT].pc = IF ok THEN "x_done" ELSE "x_fail"]
    /\ UNCHANGED <<websocket, running, reconnect_attempts, packet_id, conn, cmd,
                   auth, entry, registered, http_open, issued, now, codec, hist, call>>

\* lines 112-115: the HTTP session is closed, the setup has failed
SetupFailed ==
    /\ task[SetupT].pc = "x_fail"
    /\ http_open' = FALSE
    /\ task' = [task EXCEPT ![SetupT].pc = "x_failed"]
    /\ UNCHANGED <<websocket, running, reconnect_attempts, packet_id, conn, cmd,
                   auth, entry, registered, issued, now, codec, hist, call>>

\* the entries a setup may find: without tokens, or with the tokens of an
\* earlier session, their expiry absent, near or far
SavedEntries ==
    {Creds(NoAuth)} \cup
    {[access_token |-> 1, refresh_token |-> 1, sid |-> 1, expires_at |-> x] :
        x \in {None} \cup {1 + e : e \in AuthExpiresIn}}

SetupInit ==
    /\ websocket = None
    /\ running = FALSE
    /\ reconnect_attempts = 0
    /\ packet_id = 1
    /\ conn = [c \in ConnIds |-> NewConn]
    /\ task = [t \in TaskIds |->
                 IF t = CmdT THEN [IdleTask EXCEPT !.kind = "cmd", !.pc = "m_idle"]
                 ELSE IF t = UnlT THEN [IdleTask EXCEPT !.kind = "unload", !.pc = "u_idle"]
                 ELSE IF t = SetupT THEN [IdleTask EXCEPT !.kind = "setup", !.pc = "x_start"]
                 ELSE IdleTask]
    /\ cmd = NoCmd
    /\ now = 1
    /\ auth = NoAuth
    /\ entry \in SavedEntries
    /\ registered = FALSE
    /\ http_open = TRUE
    /\ issued = 1
    /\ hist = NoHist
    /\ call = NoCall
    /\ codec = NoCodec

\* the setup of an entry, up to its end, while time passes
SetupNext ==
    \/ SetupStart
    \/ \E out \in HttpOutcomes, e \in AuthExpiresIn : SetupGvt1Return(out, e)
    \/ \E out \in IntrospectOutcomes : SetupIntrospectReturn(out)
    \/ \E out \in HttpOutcomes, e \in AuthExpiresIn : SetupFallbackReturn(out, e)
    \/ \E out \in HttpOutcomes, e \in AuthExpiresIn : SetupGvt2Return(out, e)
    \/ \E ok \in BOOLEAN : SetupInstallReturn(ok)
    \/ ConnectStep(SetupT, MaxConn, MaxAlive)
    \/ \E c \in ConnIds : Drop(c)
    \/ \E ok \in BOOLEAN : SetupForwardReturn(ok)
    \/ SetupFailed
    \/ Tick

SetupSpec == SetupInit /\ [][SetupNext]_vars

\* what the code itself brings to an end: connect() returns or raises, the
\* wait for the Connect-Ack is bounded by 5 s (line 170), the token request
\* is answered or fails, close() returns. The recv() calls after the
\* Subscribes (lines 200, 204) have no timeout: they end when the broker
\* sends a frame, which nothing obliges, or when the connection has ended
RecvRaises(t) == task[t].conn # None /\ conn[task[t].conn].st # "open"

ConnectFairness(t) ==
    /\ WF_vars(RecvRaises(t) /\ S1Return(t, "suback"))
    /\ WF_vars(RecvRaises(t) /\ S2Return(t, "suback", MaxAlive))
    /\ WF_vars(\E ok \in BOOLEAN : OpenReturn(t, ok, MaxConn))
    /\ WF_vars(\E f \in AckOutcomes : AckReturn(t, f))
    /\ WF_vars(\E out \in RefreshOutcomes, e \in ExpiresIn : CRefreshReturn(t, out, e))
    /\ WF_vars(CCloseReturn(t))

\* the setup of an entry, its bounded waits coming to their end
SetupLiveSpec == SetupSpec /\ ConnectFairness(SetupT)

-----------------------------------------------------------------------------
(* The codec, coordinator.py 51-133 and 253-260. Bytes are numbers 0..255,
   byte strings are sequences; text is ASCII, which UTF-8 encodes byte for
   byte; temperatures are counted in 1/18000 of a degree Celsius, in which
   both conversions are exact *)

\* struct.pack("!H", x) and struct.unpack("!H", b)
Pack16(x) == <<x \div 256, x % 256>>
Unpack16(b) == b[1] * 256 + b[2]

\* the Python slice b[lo:hi], indices from 0, cut at the end of b
Slice(b, lo, hi) ==
    LET last == IF hi < Len(b) THEN hi ELSE Len(b) IN
    IF lo >= last THEN <<>> ELSE SubSeq(b, lo + 1, last)

\* the encoder without "byte |= 0x80"
RECURSIVE EncodeRemainingLength_NoContinuation(_)
EncodeRemainingLength_NoContinuation(length) ==
    LET byte == length % 128
        rest == length \div 128 IN
    IF rest > 0 THEN <<byte>> \o EncodeRemainingLength_NoContinuation(rest)
    ELSE <<byte>>

\* lines 67-78: 7 bits a byte, lowest first, 0x80 set while more follow
RECURSIVE EncodeRemainingLength(_)
EncodeRemainingLength(length) ==
    LET byte == length % 128
        rest == length \div 128 IN
    IF rest > 0 THEN <<byte + 128>> \o EncodeRemainingLength(rest)
    ELSE <<byte>>

\* lines 80-107: client id, user name and password as byte strings
CreateMqttConnect(client_id, username, password) ==
    LET variable_header == <<0, 4, 77, 81, 84, 84, 4, 194, 0, 60>>
        payload == Pack16(Len(client_id)) \o client_id
                   \o Pack16(Len(username)) \o username
                   \o Pack16(Len(password)) \o password IN
    <<16>> \o EncodeRemainingLength(Len(variable_header) + Len(payload))
           \o variable_header \o payload

\* lines 109-121
CreateSubscribe(pid, topic, qos) ==
    LET topic_field == Pack16(Len(topic)) \o topic \o <<qos>>
        variable_header == Pack16(pid) IN
    <<130>> \o EncodeRemainingLength(Len(variable_header) + Len(topic_field))
            \o variable_header \o topic_field

\* lines 123-133
CreatePublish(topic, payload) ==
    LET topic_field == Pack16(Len(topic)) \o topic IN
    <<48>> \o EncodeRemainingLength(Len(topic_field) + Len(payload))
           \o topic_field \o payload

\* bytes.decode("utf-8") of ASCII text; a byte from 128 on is no ASCII
IsAscii(b) == \A i \in 1..Len(b) : b[i] < 128

\* lines 253-260: what the inbound loop takes for topic and payload of a
\* frame of type 3; the topic length is read at bytes 2 and 3, the topic
\* from byte 4 on. A frame too short for the length, or a topic that does
\* not decode, raises
ParsePublish(response) ==
    IF Len(response) < 4 THEN [raised |-> TRUE]
    ELSE LET topic_length == Unpack16(Slice(response, 2, 4))
             topic == Slice(response, 4, 4 + topic_length)
             payload == Slice(response, 4 + topic_length, Len(response)) IN
         IF ~IsAscii(topic) THEN [raised |-> TRUE]
         ELSE [raised |-> FALSE, topic |-> topic,
               payload |-> SelectSeq(payload, LAMBDA x : x < 128)]

\* int(): the fraction is cut off, towards zero
IntOf(num, den) ==
    IF num >= 0 THEN num \div den ELSE -((-num) \div den)

\* lines 51-54: c * 9/5 + 32, times 10, cut to an integer; c in 1/18000 degree
celsius_to_api_value(c) == IntOf(c + 320 * 1000, 1000)

\* lines 56-59: (value / 10 - 32) * 5 / 9, in 1/18000 degree
api_value_to_celsius(value) == (value - 320) * 1000

\* lines 378-382: the parameters set_temperature() hands to _send_zone_command
SetTemperatureParams(c) == [p2 |-> celsius_to_api_value(c), p15 |-> 0]

\* ASCII text of n letters
Text(n) == [i \in 1..n |-> 97 + (i % 26)]

\* the inputs of the codec functions
Lengths ==
    (0..MaxLength) \cup {16383, 16384, 16385, 2097151, 2097152, 268435455}
TopicLengths == {0, 1, 15, MaxTopic}
PayloadLengths == {0, 7, 110, 111, 112, MaxPayload}
CredentialLengths == {1, 36, MaxPayload}

\* the grid of temperatures: 5.000 to 35.000 degrees in steps of 0.001
Celsius == {18 * k : k \in MinMilli..MaxMilli}

\* line 45 and 61-65: the counter starts at 1 and is incremented with every
\* Subscribe of the process; the values at its start and after 65533 and
\* 65534 Subscribes
PacketIds == {1, 2, 65534, 65535}

CodecInputs(op, arg) == codec = [op |-> op, arg |-> arg]

\* an input is handed to one of the functions
CodecInit ==
    /\ websocket = None
    /\ running = FALSE
    /\ reconnect_attempts = 0
    /\ conn = [c \in ConnIds |-> NewConn]
    /\ task = [t \in TaskIds |-> IdleTask]
    /\ cmd = NoCmd
    /\ now = 1
    /\ auth = NoAuth
    /\ entry = Creds(NoAuth)
    /\ registered = FALSE
    /\ http_open = TRUE
    /\ issued = 0
    /\ hist = NoHist
    /\ call = NoCall
    /\ packet_id \in PacketIds
    /\ \/ \E n \in Lengths : CodecInputs("length", n)
       \/ \E t \in TopicLengths, p \in PayloadLengths :
             CodecInputs("publish", [topic |-> Text(t), payload |-> Text(p)])
       \/ \E t \in TopicLengths :
             CodecInputs("subscribe", [topic |-> Text(t)])
       \/ \E i, u, w \in CredentialLengths :
             CodecInputs("connect", [client_id |-> Text(i), username |-> Text(u),
                                     password |-> Text(w)])
       \/ \E c \in Celsius : CodecInputs("celsius", c)

codecOnly == <<websocket, running, reconnect_attempts, conn, task, cmd, auth,
               entry, registered, http_open, issued, now, hist, call>>

\* _encode_remaining_length(n)
EncodeLength ==
    /\ codec.op = "length"
    /\ codec' = [op |-> "encoded", arg |-> codec.arg,
                 out |-> EncodeRemainingLength(codec.arg)]
    /\ UNCHANGED <<codecOnly, packet_id>>

\* _create_publish(topic, payload)
BuildPublish ==
    /\ codec.op = "publish"
    /\ codec' = [op |-> "published", arg |-> codec.arg,
                 out |-> CreatePublish(codec.arg.topic, codec.arg.payload)]
    /\ UNCHANGED <<codecOnly, packet_id>>

\* the frame comes back and the inbound loop parses it
ReceivePublish ==
    /\ codec.op = "published"
    /\ codec' = [op |-> "parsed", arg |-> codec.arg,
                 out |-> ParsePublish(codec.out)]
    /\ UNCHANGED <<codecOnly, packet_id>>

\* struct.pack("!H", x) raises struct.error outside 0..65535
PackRaises(x) == x \notin 0..65535

\* the Subscribe frames built so far for the connection
Subscribes == IF codec.op = "subscribed" THEN codec.n ELSE 0

\* _create_subscribe(topic), lines 111-121 and 61-65: the packet id is taken
\* and the counter incremented, then the frame is built or pack() raises;
\* connect_mqtt builds the Subscribe of one topic after the other
BuildSubscribe ==
    /\ codec.op \in {"subscribe", "subscribed"}
    /\ Subscribes < MaxSubs
    /\ codec' = IF PackRaises(packet_id)
                  THEN [op |-> "raised", arg |-> codec.arg]
                  ELSE [op |-> "subscribed", arg |-> codec.arg,
                        out |-> CreateSubscribe(packet_id, codec.arg.topic, 0),
                        id |-> packet_id, n |-> Subscribes + 1]
    /\ packet_id' = packet_id + 1
    /\ UNCHANGED codecOnly

\* _create_mqtt_connect()
BuildConnect ==
    /\ codec.op = "connect"
    /\ codec' = [op |-> "framed", arg |-> codec.arg,
                 out |-> CreateMqttConnect(codec.arg.client_id, codec.arg.username,
                                           codec.arg.password)]
    /\ UNCHANGED <<codecOnly, packet_id>>

\* set_temperature(zone, c) builds its parameters
SetTemperature ==
    /\ codec.op = "celsius"
    /\ codec' = [op |-> "command", arg |-> codec.arg,
                 out |-> SetTemperatureParams(codec.arg)]
    /\ UNCHANGED <<codecOnly, packet_id>>

\* api_value_to_celsius() of the value that was sent
ReadTemperature ==
    /\ codec.op = "command"
    /\ codec' = [op |-> "read", arg |-> codec.arg,
                 out |-> api_value_to_celsius(codec.out.p2)]
    /\ UNCHANGED <<codecOnly, packet_id>>

CodecNext ==
    \/ EncodeLength
    \/ BuildPublish
    \/ ReceivePublish
    \/ BuildSubscribe
    \/ BuildConnect
    \/ SetTemperature
    \/ ReadTemperature

CodecSpec == CodecInit /\ [][CodecNext]_vars

-----------------------------------------------------------------------------
(* Claims *)

ReconnectPcs == {"r_close", "r_refresh", "r_backoff", "r_wait10"}
ConnectPcs == {"c_open", "c_ack", "c_refresh", "c_close", "s1_ack", "s2_ack"}

\* C1: once disconnect() has run, no new connection is opened (so no Connect
\* frame is sent) and the running flag never becomes true again
C1_DisconnectedIsFinal ==
    [][hist.disconnected => (nOpened' = nOpened /\ ~running')]_vars

\* C2: the reconnect-attempt counter never exceeds the maximum of 3, and once
\* 3 attempts of the reconnect procedure have failed with no Connect-Ack 0 in
\* between, no further connection attempt is made
C2_AttemptsBounded ==
    /\ [](reconnect_attempts <= max_reconnect_attempts)
    /\ [][hist.failed >= max_reconnect_attempts
            => hist'.attemptsMade <= hist.attemptsMade]_vars

\* the counter alone
C2_CounterBounded == reconnect_attempts <= max_reconnect_attempts

\* within one connect_mqtt invocation: at most one refresh, at most one more
\* Connect than refreshes, and the retried Connect comes after the refresh
C3_Bounded ==
    \A t \in TaskIds :
        LET r == task[t] IN
        /\ r.nRefresh <= 1
        /\ r.nConnect <= r.nRefresh + 1
        /\ r.pc \in {"c_refresh", "c_close"} =>
               r.rwr /\ r.nRefresh = 1 /\ r.nConnect = 1
        /\ (r.pc \in ConnectPcs /\ ~r.rwr) => r.nRefresh = 1

\* the answer to the retried Connect starts no refresh and no Connect
C3_RetryIsLast(t) ==
    (task[t].pc = "c_ack" /\ ~task[t].rwr)
        => task'[t].pc \notin {"c_refresh", "c_close", "c_open"}

\* close() of the rejected connection is followed by the retried Connect,
\* which permits no further retry
C3_CloseThenRetry(t) ==
    (task[t].pc = "c_close" /\ task'[t] # task[t])
        => (task'[t].pc = "c_open" /\ ~task'[t].rwr)

\* C3: a Connect-Ack 4/5 with retry permitted triggers exactly one refresh,
\* followed, once the token endpoint has issued new tokens, by exactly one
\* retried Connect; a retried Connect answered 4/5 fails without a further
\* refresh or Connect
C3_RefreshThenOneRetry ==
    /\ []C3_Bounded
    /\ [][\A t \in TaskIds :
            /\ C3_RetryIsLast(t)
            /\ C3_CloseThenRetry(t)
            /\ (task[t].pc = "c_refresh" /\ task'[t] # task[t] /\ auth' # auth)
                   => task'[t].pc = "c_close"]_vars

\* the bounds alone: no invocation refreshes twice or sends a third Connect
C3_NoRefreshLoop ==
    /\ []C3_Bounded
    /\ [][\A t \in TaskIds : C3_RetryIsLast(t) /\ C3_CloseThenRetry(t)]_vars

\* the retried Connect of an invocation has been sent after its one refresh
C3_Witness ==
    \E t \in TaskIds :
        /\ task[t].pc = "c_ack" /\ ~task[t].rwr
        /\ task[t].nRefresh = 1 /\ task[t].nConnect = 2

\* the record of a command that has ended
CmdEnded == task[CmdT].pc = "m_done"

C4_Counts ==
    /\ cmd.reconn <= 1 /\ cmd.sends <= 2 /\ cmd.tries <= 2
    /\ cmd.tries <= cmd.reconn + 1
    /\ task[CmdT].pc = "m_sleep" => (cmd.reconn = 1 /\ cmd.tries = 1 /\ cmd.retry)
    /\ CmdEnded =>
          /\ cmd.result \in {"ok", "fail"}
          /\ cmd.tries = cmd.reconn + 1
          /\ cmd.retry <=> cmd.reconn = 0
          /\ cmd.result = "fail" => (cmd.reconn = 1 /\ cmd.tries = 2)
          /\ cmd.reconn = 0 => (cmd.result = "ok" /\ cmd.sends = 1)

\* C4: a command checks the connection before the Publish; when it is not
\* open or the send fails, the reconnect procedure runs once and the send is
\* retried exactly once: at most one reconnect and two send attempts per
\* command, and a failed retry ends the command with an error
C4_OneReconnectOneRetry ==
    /\ []C4_Counts
    /\ [][cmd'.written > cmd.written => IsWebsocketConnected]_vars

\* a command failed after its one reconnect and its one retry
C4_Witness ==
    CmdEnded /\ cmd.result = "fail" /\ cmd.reconn = 1 /\ cmd.sends = 2

\* C5: a command that returns has written exactly one Publish frame, on
\* client/<device id>; one that fails has written none; none writes two
C5_OnePublishPerCommand ==
    /\ cmd.written <= 1
    /\ CmdEnded =>
          /\ cmd.result = "ok" => (cmd.written = 1 /\ cmd.topic = PublishTopic)
          /\ cmd.result = "fail" => cmd.written = 0

\* a command succeeded on its retry, after a failed first send
C5_Witness ==
    CmdEnded /\ cmd.result = "ok" /\ cmd.sends = 2 /\ cmd.written = 1

-----------------------------------------------------------------------------
(* Claims about the auth client *)

\* the step from this state to the next is a call of op
Invoked(op) == call'.turn # call.turn /\ call'.op = op

\* C6: get_valid_token() on a client that holds a token with a known expiry
\* makes exactly one refresh call when now >= expires_at - 5 minutes and none
\* when now < expires_at - 5 minutes
C6_RefreshIffExpiring ==
    [][(Invoked("get_valid_token") /\ auth.access_token # None
                                   /\ auth.expires_at # None)
          => call'.refreshes = IF now >= auth.expires_at - RefreshMarginMin
                                 THEN 1 ELSE 0]_vars

\* a token 4 minutes from its expiry was refreshed by the call, once, into a
\* long-lived one
C6_Witness ==
    /\ call.op = "get_valid_token" /\ call.refreshes = 1 /\ call.result = "token"
    /\ now = 5 /\ issued = 2
    /\ auth.expires_at = now + DefaultExpiresInMin

\* C7: when the token endpoint answers a refresh with a non-success status, or
\* the request raises, the four credential fields keep their values and the
\* caller gets an exception
C7_FailedRefreshKeepsCredentials ==
    [][(call'.turn # call.turn /\ call'.refreshes = 1
                               /\ call'.http \in {"status", "error"})
          => /\ Creds(auth') = Creds(auth)
             /\ call'.result \in {"raise_status", "raise_request"}]_vars

\* a refresh was refused by the token endpoint
C7_Witness ==
    /\ call.op = "refresh_access_token" /\ call.http = "status"
    /\ call.result = "raise_status" /\ call.requests = 1
    /\ auth.access_token = 1 /\ issued = 1

\* the step of the flow that comes before op
Preceding(op) ==
    CASE op = "login" -> "start_authorization_flow"
      [] op = "initiate_mfa_email" -> "login"
      [] op = "verify_mfa_code" -> "initiate_mfa_email"
      [] op = "complete_mfa_login" -> "verify_mfa_code"
      [] op = "get_tokens" -> "complete_mfa_login"

FlowSteps == {"login", "initiate_mfa_email", "verify_mfa_code",
              "complete_mfa_login", "get_tokens"}

\* the call is refused by its guard before any request
Refused == call'.result = "raise_guard" /\ call'.requests = 0

\* C8: a step of the login flow invoked when the step before it has not
\* succeeded fails with the guard's error and issues no network request
C8_StrictOrder ==
    [][\A op \in FlowSteps :
          (Invoked(op) /\ Preceding(op) \notin hist.done) => Refused]_vars

\* C8 for the completion alone: invoked with no MFA code verified
C8_CompletionNeedsVerify ==
    [][(Invoked("complete_mfa_login") /\ "verify_mfa_code" \notin hist.done)
          => Refused]_vars

\* C8 for login alone: invoked before the authorization was started
C8_LoginNeedsStart ==
    [][(Invoked("login") /\ "start_authorization_flow" \notin hist.done)
          => Refused]_vars

\* C9: initiate_mfa_email() called without a sub or without a request_id
\* raises the guard's error, makes no network call and changes no auth state
C9_InitiateBeforeLogin ==
    [][(Invoked("initiate_mfa_email")
            /\ (auth.sub = None \/ auth.request_id = None))
          => (Refused /\ auth' = auth)]_vars

\* the call was refused on a client that holds a sub but no request_id
C9_Witness ==
    /\ call.op = "initiate_mfa_email" /\ call.result = "raise_guard"
    /\ call.requests = 0
    /\ auth.sub # None /\ auth.request_id = None

-----------------------------------------------------------------------------
(* Claims about the persisted credentials *)

\* C10: when an operation that refreshed the credentials has completed, the
\* persisted credentials equal the ones in memory: here, when the setup of
\* the entry has completed
C10_PersistedEqualsMemory ==
    task[SetupT].pc = "x_done" => entry = Creds(auth)

\* C10 for the session that runs: after a refresh of the reconnect procedure
\* or of a rejected Connect, while the entry is loaded
C10_PersistedWhileRegistered ==
    (registered /\ task[SetupT].pc = "x_done") => entry = Creds(auth)

-----------------------------------------------------------------------------
(* Claims about connect_mqtt *)

\* a Subscribe frame is sent on connection c in this step
SubscribeSent(c) == Len(conn'[c].subs) > Len(conn[c].subs)

\* the Subscribe frames of a connection: the account topic, then the realtime one
C11_InOrder ==
    \A c \in ConnIds :
        conn[c].subs \in {<<>>, <<TopicAccount>>, <<TopicAccount, TopicRealtime>>}

\* Subscribe frames are found only on connections that got a Connect-Ack 0
C11_OnlyAcked == \A c \in ConnIds : conn[c].subs # <<>> => conn[c].acked

\* the second Subscribe of a connection is sent by the task whose recv() for the
\* answer to the first has returned
C11_SecondAfterAnswer ==
    \A c \in ConnIds :
        (SubscribeSent(c) /\ Len(conn[c].subs) >= 1)
            => \E t \in TaskIds : /\ task[t].pc = "s1_ack" /\ task[t].conn = c
                                  /\ task'[t] # task[t]

\* the running flag is set by the task whose recv() for the answer to the
\* second Subscribe has returned
C11_RunningAfterSecond ==
    (running' /\ ~running)
        => \E t \in TaskIds : /\ task[t].pc = "s2_ack" /\ task'[t] # task[t]
                              /\ conn[task[t].conn].st = "open"
                              /\ Len(conn[task[t].conn].subs) >= 2

\* C11: after a Connect-Ack 0 exactly two Subscribe frames are sent on that
\* connection, client/<account> then client/<device>/realtime, the second only
\* after a frame came in answer to the first; the running flag is set only
\* after the second answer; no Subscribe frame is sent on a connection that
\* has not received a Connect-Ack 0
C11_SubscribeAfterAck ==
    /\ [](C11_InOrder /\ C11_OnlyAcked)
    /\ [][C11_SecondAfterAnswer /\ C11_RunningAfterSecond]_vars

\* the step is the end of task t's wait for the Connect-Ack
AckRead(t) == task[t].pc = "c_ack" /\ task'[t] # task[t]

\* connect_mqtt has read a Connect-Ack with return code 0 at line 171
AckZero(t, f) ==
    /\ conn[task[t].conn].st = "open"
    /\ ~f.timeout /\ f.len >= 4 /\ f.b0 = 32 /\ f.rc = 0

\* the counter is reset and the connection is the acknowledged one, on which
\* the invocation goes on to subscribe
C12_Connected(t) ==
    /\ reconnect_attempts' = 0
    /\ conn'[task[t].conn].acked
    /\ task'[t].pc \in {"s1_ack", "r_wait10", "x_fail"}

\* the counter keeps its value, the flag and the subscriptions are untouched
\* and the connection is not an acknowledged one
C12_NotConnected(t) ==
    /\ reconnect_attempts' = reconnect_attempts
    /\ running' = running
    /\ ~conn'[task[t].conn].acked
    /\ task'[t].pc \notin {"s1_ack", "s2_ack"}
    /\ \A c \in ConnIds : ~SubscribeSent(c)

\* connect_mqtt has raised
C12_Failed(t) == task'[t] = ConnectFailed(task[t])

\* a Connect-Ack 4 or 5 where a retry is permitted: the refresh is started
C12_RefreshStarted(t, f) ==
    /\ ~f.timeout /\ f.len >= 4 /\ f.b0 = 32 /\ f.rc \in {4, 5}
    /\ task[t].rwr
    /\ task'[t].pc = "c_refresh"
    /\ task'[t].nRefresh = task[t].nRefresh + 1

-----------------------------------------------------------------------------
(* Claims about the reconnect procedure *)

\* task t, in an attempt of the reconnect procedure, starts the refresh that
\* follows a Connect-Ack 4/5, or sends the retried Connect after it
RefreshAndRetryStep(t) ==
    /\ task[t].kind # "setup"
    /\ \/ task[t].pc = "c_ack" /\ task'[t].pc = "c_refresh"
       \/ task[t].pc = "c_close" /\ task'[t].pc = "c_open"

\* C13: within one reconnect cycle (from the first invocation of the reconnect
\* procedure to a Connect-Ack 0 or exhaustion) the refresh-and-retry that
\* follows a Connect-Ack 4/5 is performed on the first attempt only, so at
\* most one Connect-Ack 4/5 of the cycle leads to one
C13_RefreshRetryFirstAttemptOnly ==
    [][\A t \in TaskIds : RefreshAndRetryStep(t) => hist.attemptsMade <= 1]_vars

\* the reconnect procedure run by task t ends in this step without a
\* connection: a command entered it with the counter at the maximum, or the
\* wait after its last permitted attempt is over
ReconnectExhausted(t) ==
    \/ t = CmdT /\ cmd'.reconn > cmd.reconn /\ GiveUp
    \/ task[t].pc = "r_wait10" /\ task'[t] # task[t] /\ ~MayRecurse

\* C14: when the reconnect procedure finds the counter at the maximum, or its
\* last permitted attempt has failed, its caller gets an error: it does not
\* continue as it does after a reconnection
C14_ExhaustionSurfaced ==
    [][\A t \in TaskIds :
          ReconnectExhausted(t) => task'[t] # ConnectReturned(task[t])]_vars

-----------------------------------------------------------------------------
(* Claims about the login flow *)

\* C17: verify_mfa_code() answered with a 200 whose success field is false or
\* absent reports a rejection, not a success; it changes no auth state
\* (exchange_id, status_id, sub, track_id, request_id), and a verify called
\* after a rejected one is not refused: it issues its request again
C17_RejectedVerifyKeepsState ==
    [][Invoked("verify_mfa_code") =>
          /\ call'.http \in {"rejected", "rejected_text"}
                 => /\ call'.result \in {"false", "raise_body"}
                    /\ auth' = auth
                    /\ auth'.exchange_id # None /\ auth'.sub # None
          /\ (call.op = "verify_mfa_code" /\ call.http \in {"rejected", "rejected_text"})
                 => call'.requests = 1]_vars

\* a code was rejected on a client whose earlier steps are done and which has
\* verified no code
C17_Witness ==
    /\ call.op = "verify_mfa_code" /\ call.http = "rejected"
    /\ call.result = "false" /\ call.requests = 1
    /\ "initiate_mfa_email" \in hist.done /\ "verify_mfa_code" \notin hist.done
    /\ auth.exchange_id # None /\ auth.status_id # None /\ auth.sub # None

\* start_authorization_flow() has ended without a request_id on the client
StartedWithoutRequestId ==
    Invoked("start_authorization_flow") /\ auth'.request_id = None

\* login() has posted the credentials with no request_id: the client held
\* none, the authorization request was made and brought none
LoginPostedWithoutRequestId ==
    /\ Invoked("login")
    /\ auth.request_id = None
    /\ call'.requests = 2
    /\ "start_authorization_flow" \notin hist'.done

\* C20: when the answer to the authorization request is no redirect carrying
\* requestId or request_id, the step fails with an error, and no login
\* request is ever issued without a request id issued by the server
C20_NoLoginWithoutRequestId ==
    [][/\ StartedWithoutRequestId
            => call'.result \in {"raise_request", "raise_status", "raise_protocol"}
       /\ ~LoginPostedWithoutRequestId]_vars

\* C20 for the login request alone
C20_LoginHoldsRequestId == [][~LoginPostedWithoutRequestId]_vars

-----------------------------------------------------------------------------
(* Claims about disconnect *)

\* disconnect() returns in this step
DisconnectReturns ==
    task[UnlT].pc \in {"u_idle", "d_close"} /\ task'[UnlT].pc = "u_done"

\* disconnect() closes the connection in this step
DisconnectCloses == task[UnlT].pc = "u_idle" /\ task'[UnlT].pc = "d_close"

\* disconnect() returns with the flag down and no handle
C18_LeavesNothing == DisconnectReturns => (~running' /\ websocket' = None)

\* no call of another activity is pending on the connection disconnect()
\* closes: a pending recv() would raise
C18_NoPendingCall ==
    DisconnectCloses => \A t \in TaskIds \ {UnlT} : task[t].conn # websocket

\* C18: disconnect() is safe from any state (never connected, handshake in
\* progress, connected, reconnecting): it completes leaving running false and
\* no connection handle, and it causes no error in another activity
C18_DisconnectSafe == [][C18_LeavesNothing /\ C18_NoPendingCall]_vars

\* C18 for the return alone
C18_ReturnsIdle == [][C18_LeavesNothing]_vars

-----------------------------------------------------------------------------
(* Claims about the setup of an entry *)

\* nothing of a session is left: no open connection, no loop, the flag down,
\* no coordinator registered
NoSessionLeft ==
    /\ \A c \in ConnIds : conn[c].st # "open"
    /\ \A t \in LoopIds : task[t].kind = "none"
    /\ ~running
    /\ ~registered

\* C15: when the setup of an entry has failed, at whatever step, no partial
\* session is left behind: no transport connection is open, no inbound or
\* keepalive loop runs and no coordinator is registered for the entry
C15_NoPartialSession == task[SetupT].pc = "x_failed" => NoSessionLeft

\* C15 for the steps before Connect: a setup that fails at the token
\* validation or at the retrieval of the device data leaves nothing behind
C15_NothingBeforeConnect ==
    (task[SetupT].pc = "x_failed" /\ nOpened = 0) => NoSessionLeft

\* the setup is on its way to fail: no refresh, no Connect follows
SetupFailing == task'[SetupT].pc \in {"x_fail", "x_failed"}

\* C19: introspect_token() takes its token from get_valid_token() and raises
\* when the server reports it inactive; the setup then makes no refresh and
\* no Connect with credentials derived from it, but fails
C19_InactiveTokenFailsSetup ==
    [][SetupIntrospectReturn("inactive") => SetupFailing]_vars

-----------------------------------------------------------------------------
(* Claims about the credentials *)

\* the four credential fields of a come from one token response
SameResponse(a) ==
    /\ a.refresh_token = a.access_token
    /\ a.sid = a.access_token
    /\ a.expires_from = a.access_token

\* C16: a refresh replaces access token, refresh token, sid and expires_at
\* atomically for every reader: wherever get_valid_token(), the building of a
\* Connect frame, the persisting of the credentials or another refresh
\* interleaves, the four fields held come from the same token response
C16_FieldsFromOneResponse == SameResponse(auth)

\* C16 for the interleavings of the session: no suspension point of a refresh
\* lies between its four assignments, so the loops' refreshes, Connect frames
\* and persisted entries never mix two well-formed responses
C16_NoTearByInterleaving ==
    /\ SameResponse(auth)
    /\ entry.refresh_token = entry.access_token /\ entry.sid = entry.access_token
    /\ \A c \in ConnIds : conn[c].client = conn[c].password

-----------------------------------------------------------------------------
(* Claims about the codec *)

\* the number of bytes after the fixed header of a Publish frame
PublishBody(a) == 2 + Len(a.topic) + Len(a.payload)

\* C21: the inbound loop's decoding of a frame built by the Publish encoder
\* gives back the topic and the payload that were encoded, for every body
\* length, those of 128 bytes and more included
C21_PublishRoundTrip ==
    codec.op = "parsed" =>
        /\ ~codec.out.raised
        /\ codec.out.topic = codec.arg.topic
        /\ codec.out.payload = codec.arg.payload

\* the round trip of a frame whose remaining length takes one byte
C21_ShortRoundTrip ==
    (codec.op = "parsed" /\ PublishBody(codec.arg) < 128) =>
        /\ ~codec.out.raised
        /\ codec.out.topic = codec.arg.topic
        /\ codec.out.payload = codec.arg.payload

\* the decoder of the MQTT standard: 7 bits a byte, lowest first, until a
\* byte without 0x80; the value and the number of bytes read
RECURSIVE DecodeRemainingLength(_)
DecodeRemainingLength(b) ==
    IF b[1] >= 128 /\ Len(b) > 1
    THEN LET r == DecodeRemainingLength(Tail(b)) IN
         [value |-> (b[1] - 128) + 128 * r.value, used |-> r.used + 1]
    ELSE [value |-> b[1] % 128, used |-> 1]

StandardLength(n) ==
    IF n <= 127 THEN 1 ELSE IF n <= 16383 THEN 2 ELSE IF n <= 2097151 THEN 3 ELSE 4

\* the encoding of n is the standard one
C22_StandardForm ==
    codec.op = "encoded" =>
        LET n == codec.arg
            e == codec.out IN
        /\ Len(e) = StandardLength(n)
        /\ \A i \in 1..Len(e) : e[i] \in 0..255 /\ (e[i] >= 128 <=> i < Len(e))
        /\ DecodeRemainingLength(e) = [value |-> n, used |-> Len(e)]

\* a frame declares the number of bytes that follow its length field
C22_DeclaredLength ==
    codec.op \in {"framed", "subscribed", "published"} =>
        LET d == DecodeRemainingLength(Tail(codec.out)) IN
        /\ d.value = Len(codec.out) - 1 - d.used
        /\ codec.op = "published" => d.value = PublishBody(codec.arg)

\* C22: every n below 2^28 is encoded in the standard form of 1 to 4 bytes,
\* the continuation bit on every byte but the last, and the standard decoder
\* gives n back; every Connect, Subscribe and Publish frame declares a
\* remaining length equal to the number of bytes after the length field
C22_RemainingLength == C22_StandardForm /\ C22_DeclaredLength

C22_Witness ==
    /\ codec.op = "encoded"
    /\ codec.arg = 16384
    /\ codec.out = <<128, 128, 1>>

C22_LongFrame ==
    /\ codec.op = "published"
    /\ PublishBody(codec.arg) >= 128
    /\ codec.out[2] >= 128

Dist(a, b) == IF a >= b THEN a - b ELSE b - a

\* C23: for every temperature of the grid, set_temperature sends in field
\* "2" the integer nearest to (c * 9/5 + 32) * 10
C23_SentIsRounded ==
    codec.op = "command" =>
        2 * Dist(1000 * codec.out.p2, codec.arg + 320 * 1000) <= 1000

\* what is sent is the integer part of (c * 9/5 + 32) * 10
C23_SentIsTruncated ==
    codec.op = "command" =>
        /\ 1000 * codec.out.p2 <= codec.arg + 320 * 1000
        /\ codec.arg + 320 * 1000 < 1000 * (codec.out.p2 + 1)

\* C24: converting a temperature to the wire value and back gives a
\* temperature within 0.05 degree of it
C24_RoundTripWithin ==
    codec.op = "read" => Dist(codec.out, codec.arg) <= 900

\* on the grid of tenths of a degree
C24_TenthsWithin ==
    (codec.op = "read" /\ codec.arg % 1800 = 0) =>
        Dist(codec.out, codec.arg) <= 900

\* the value read back is never above the one set, and less than 1/18 below
C24_RoundTripBelow ==
    codec.op = "read" =>
        codec.out <= codec.arg /\ codec.arg - codec.out < 1000

-----------------------------------------------------------------------------
(* Claims about the two loops *)

ListenPcs == {"l_start", "l_recv"}
KeepalivePcs == {"k_start", "k_sleep"}

\* the tasks that are in the inbound loop, and those in the keepalive loop
ListenLoops == {t \in LoopIds : task[t].pc \in ListenPcs}
KeepaliveLoops == {t \in LoopIds : task[t].pc \in KeepalivePcs}

\* a step that creates the two loops of a new connection
LoopsCreated == Cardinality(FreeLoops(task')) < Cardinality(FreeLoops(task))

\* at most one loop of each kind
C25_AtMostOneEach ==
    Cardinality(ListenLoops) <= 1 /\ Cardinality(KeepaliveLoops) <= 1

\* when the loops of a connection are created, no loop of an earlier
\* connection is left
C25_NoSurvivor ==
    [][LoopsCreated => ListenLoops \cup KeepaliveLoops = {}]_vars

\* C25: at every moment at most one inbound loop and at most one keepalive
\* loop are active; the loops of a previous connection do not survive into
\* the next connection, whose loops are created when it is established
C25_OneLoopOfEachKind == []C25_AtMostOneEach /\ C25_NoSurvivor

\* disconnect() has cleared the running flag
FlagCleared == task[UnlT].pc \in {"d_close", "u_done"} /\ ~running

\* task t is in one of the loops and does nothing but stay suspended or end
LoopOnlyEnds(t) ==
    task[t].pc \in ListenPcs \cup KeepalivePcs => task'[t] \in {task[t], IdleTask}

\* C26: after the running flag is cleared, neither loop sends or receives on
\* the closed handle or starts any further activity: once its pending
\* recv() or sleep is over, a loop ends
C26_LoopsOnlyEndAfterClear ==
    [][FlagCleared => \A t \in LoopIds : LoopOnlyEnds(t)]_vars

\* the keepalive loop does so
C26_KeepaliveEndsAfterClear ==
    [][FlagCleared =>
          \A t \in LoopIds : task[t].pc \in KeepalivePcs => LoopOnlyEnds(t)]_vars

\* once disconnect() has returned, no loop runs with the flag set on an
\* open connection
C26_NoLoopRunsAfterDisconnect ==
    task[UnlT].pc = "u_done" =>
        ~(running /\ IsOpen(conn, websocket)
                  /\ ListenLoops # {} /\ KeepaliveLoops # {})

-----------------------------------------------------------------------------
(* Claims about concurrent reconnects and the connection handle *)

\* the tasks that are inside _attempt_reconnect_with_refresh
Reconnecting ==
    {t \in LoopIds \cup {CmdT} : task[t].pc \in ReconnectPcs \cup ConnectPcs}

\* at most one reconnect procedure is in progress
C27_AtMostOneInProgress == Cardinality(Reconnecting) <= 1

\* while no attempt has failed since the last Connect-Ack 0, the counter has
\* been incremented at most once
C27_OneIncrementPerFailure == hist.failed = 0 => reconnect_attempts <= 1

\* C27: at most one reconnect procedure is in progress at any time; a
\* connection failure that several activities observe is answered by one
\* run of the procedure, which increments the attempt counter by one
C27_OneReconnectAtATime ==
    C27_AtMostOneInProgress /\ C27_OneIncrementPerFailure

OpenConns == {c \in ConnIds : conn[c].st = "open"}

\* at most one transport connection is open
C28_AtMostOneOpen == Cardinality(OpenConns) <= 1

\* the handle is not overwritten or set to null while its connection is open
C28_HandleKeptWhileOpen ==
    [][websocket' # websocket => ~IsOpen(conn, websocket)]_vars

\* no connection is open that the handle does not refer to
C28_NoneLeftOpen == OpenConns \subseteq {websocket}

\* C28: at most one transport connection is open at any time; the handle is
\* never overwritten or set to null while the connection it refers to is
\* open, so that no open connection is left without a handle to close it by
C28_OneConnectionNoLeak ==
    [](C28_AtMostOneOpen /\ C28_NoneLeftOpen) /\ C28_HandleKeptWhileOpen

\* the reconnect procedure has given up and nobody is connecting
GaveUp ==
    /\ GiveUp
    /\ \A t \in TaskIds : task[t].pc \notin ReconnectPcs \cup ConnectPcs

\* a procedure that has given up leaves no connection open
C28_ClosedAfterGivingUp == GaveUp => OpenConns = {}

-----------------------------------------------------------------------------
(* Claims about commands and the running flag *)

\* a Publish frame is written to connection c
PublishWritten(c) == conn[c].st = "open" /\ conn'[c].pubs > conn[c].pubs

\* C29: a Publish frame is only written to a connection on which a
\* Connect-Ack with return code 0 has been received
C29_PublishOnlyAfterAck ==
    [][\A c \in ConnIds : PublishWritten(c) => conn[c].acked]_vars

\* a Publish frame is only written to an open connection that the handle
\* refers to
C29_PublishOnOpenHandle ==
    [][\A c \in ConnIds : PublishWritten(c) => (websocket = c /\ cmd'.written > cmd.written)]_vars

\* connection c got its Connect-Ack 0 and carried both Subscribes
Established(c) ==
    /\ conn[c].acked
    /\ \E i, j \in 1..Len(conn[c].subs) :
          conn[c].subs[i] = TopicAccount /\ conn[c].subs[j] = TopicRealtime

\* the flag is not set while the handle is null
C30_RunningHasHandle == running => websocket # None

\* the flag is not set while the handle refers to an open connection without
\* Connect-Ack 0 or without one of the Subscribes
C30_RunningOnEstablished ==
    (running /\ IsOpen(conn, websocket)) => Established(websocket)

\* the flag is not set while the handle refers to a closed connection; the
\* peer closing the connection falsifies this until a loop notices
C30_RunningOnOpen == (running /\ websocket # None) => IsOpen(conn, websocket)

\* C30: in every reachable state the running flag implies that the handle is
\* set, and the handle does not refer to a connection that is open without
\* having received Connect-Ack 0 and carried both Subscribes
C30_RunningMeansConnected ==
    C30_RunningHasHandle /\ C30_RunningOnEstablished

-----------------------------------------------------------------------------
(* Claims about the subscription handshake *)

\* C31: the frame consumed after each Subscribe is a Subscribe-Ack: the
\* handshake never consumes an inbound Publish frame, and so leaves no
\* Subscribe-Ack to the inbound loop
C31_HandshakeConsumesAcks ==
    \A c \in ConnIds :
        \A i \in 1..Len(conn[c].consumed) : conn[c].consumed[i] = "suback"

\* the case of a Publish on the first topic that arrives after the first
\* Subscribe-Ack and before the second
C31_NoPublishAfterFirstAck ==
    \A c \in ConnIds : conn[c].consumed # <<"suback", "publish">>

\* a session is established on a connection whose handshake took a Publish
C31_EstablishedWithoutLoss ==
    (running /\ IsOpen(conn, websocket)) =>
        conn[websocket].consumed # <<"suback", "publish">>

-----------------------------------------------------------------------------
(* Claims about the credentials of a Connect frame *)

\* task t leaves the point pc at which it was suspended
Leaves(t, pc) == task[t].pc = pc /\ task'[t] # task[t]

\* task t sends a Connect frame
SendsConnect(t) == task[t].pc = "c_open" /\ task'[t].pc = "c_ack"

\* the refresh of the procedure, failed or not, is followed by the backoff
\* and the backoff by connect_mqtt
C32_RefreshThenConnect ==
    [][\A t \in LoopIds :
          /\ Leaves(t, "r_refresh") => task'[t].pc = "r_backoff"
          /\ Leaves(t, "r_backoff") => task'[t].pc = "c_open"]_vars

\* a Connect frame carries the access token and the session id held when it
\* is built, which are those of the last token response
C32_ConnectCarriesCurrent ==
    [][\A t \in LoopIds :
          SendsConnect(t) =>
              /\ conn'[task'[t].conn].password = auth.access_token
              /\ conn'[task'[t].conn].client = auth.sid
              /\ auth.access_token = issued]_vars

\* C32: in the reconnect procedure the refresh is over, with success or
\* with a failure, before the Connect frame is built; the frame carries the
\* access token and session id current then; a failed refresh does not end
\* the attempt, the Connect is made with the credentials held before
C32_RefreshBeforeConnect ==
    C32_RefreshThenConnect /\ C32_ConnectCarriesCurrent

\* a Connect that carries the token of the procedure's refresh
C32_Witness ==
    \E t \in LoopIds :
        /\ task[t].pc = "c_ack"
        /\ issued = 2
        /\ conn[task[t].conn].password = 2
        /\ conn[task[t].conn].client = 2

\* a Connect made with the credentials held before, after a failed refresh
C32_WitnessFailedRefresh ==
    \E t \in LoopIds :
        /\ task[t].pc = "c_ack"
        /\ issued = 1
        /\ hist.attemptsMade = 1
        /\ conn[task[t].conn].password = 1

\* the token may be used as it is: its expiry is known and more than the
\* margin away
Trusted(a) == a.expires_at # None /\ ~TokenExpiring(a, now)

\* the token is one that a refresh of this setup has issued
Replaced(a) == a.access_token # None /\ a.access_token > 1

\* C33: every access token placed in a Connect frame is trusted at that
\* moment: its expiry is more than 5 minutes away, or a refresh has replaced
\* the token
C33_ConnectTokenTrusted ==
    [][SendsConnect(SetupT) => (Trusted(auth) \/ Replaced(auth))]_vars

\* the same for the tokens whose expiry is known
C33_KnownExpiryTrusted ==
    [][(SendsConnect(SetupT) /\ auth.expires_at # None) =>
          (Trusted(auth) \/ Replaced(auth))]_vars

\* the token sent to the API by introspect_token() and get_install_data()
\* was trusted, or refreshed, when get_valid_token() returned it
C33_RequestTokenTrusted ==
    [][\A pc \in {"x_introspect", "x_install"} :
          (task[SetupT].pc # pc /\ task'[SetupT].pc = pc) =>
              (Trusted(auth') \/ Replaced(auth') \/ auth'.expires_at = None)]_vars

-----------------------------------------------------------------------------
(* Claims about the packet identifier *)

\* every Subscribe frame carries an identifier of 1..65535 in its bytes 3, 4
C34_IdentifierInFrame ==
    codec.op = "subscribed" =>
        /\ codec.id \in 1..65535
        /\ Unpack16(Slice(codec.out, 2, 4)) = codec.id

\* building a Subscribe frame does not fail
C34_BuildNeverFails == codec.op # "raised"

\* the counter does not exceed 65535
C34_CounterWraps == packet_id \in 1..65535

\* C34: the packet-identifier counter stays within 16 bits: every Subscribe
\* frame carries an identifier in 1..65535, building the frame never fails,
\* and at the top of the range the counter wraps instead of exceeding 65535
C34_PacketIdWithin16Bits ==
    C34_IdentifierInFrame /\ C34_BuildNeverFails /\ C34_CounterWraps

-----------------------------------------------------------------------------
(* Claims about the frames received *)

\* a frame of type 2 whose length is not 4
MalformedAck(f) == ~f.timeout /\ f.b0 = 32 /\ f.len # 4

\* C35: a frame is taken for a Connect-Ack only if it is exactly 4 bytes
\* long with type 2; a frame of that type with any other length fails the
\* Connect and its 4th byte is not read as a return code
C35_MalformedAckFails ==
    [][\A t \in TaskIds : AckRead(t) =>
          \A f \in AckOutcomes :
              (AckReturn(t, f) /\ MalformedAck(f)) => C12_Failed(t)]_vars

\* a frame of type 2 shorter than 4 bytes fails the Connect
C35_ShortAckFails ==
    [][\A t \in TaskIds : AckRead(t) =>
          \A f \in AckOutcomes :
              (AckReturn(t, f) /\ MalformedAck(f) /\ f.len < 4) => C12_Failed(t)]_vars

\* the recv() of the inbound loop t has returned
ListenRead(t) == task[t].pc = "l_recv" /\ task'[t] # task[t]

\* the loop goes on receiving; flag, handle and counter are as before
KeepsReceiving(t) ==
    /\ task'[t].pc \in ListenPcs \cup {"idle"}
    /\ running' = running
    /\ websocket' = websocket
    /\ reconnect_attempts' = reconnect_attempts

\* C36: the content of a frame that was received never makes the inbound
\* loop invoke the reconnect procedure: a frame whose parsing fails (empty,
\* text, truncated or non-UTF-8 topic) is dropped and the loop keeps
\* receiving, with running flag, handle and counter unchanged
C36_BadFrameIsDropped ==
    [][\A t \in LoopIds :
          (ListenRead(t) /\ conn[task[t].conn].st = "open"
                         /\ ListenRecv(t, "junk")) => KeepsReceiving(t)]_vars

\* a frame that the loop handles or ignores (a Publish, with JSON or not, a
\* Ping response, a frame of another type) is followed by the next recv()
C36_GoodFrameKeepsReceiving ==
    [][\A t \in LoopIds :
          (ListenRead(t) /\ conn[task[t].conn].st = "open"
                         /\ ListenRecv(t, "frame")) => KeepsReceiving(t)]_vars

-----------------------------------------------------------------------------
(* Claims about termination *)

\* connect_mqtt, called by the setup, has returned or raised
ConnectEnded == task[SetupT].pc \in {"x_forward", "x_fail", "x_failed", "x_done"}

\* C37: every Connect attempt terminates: connect_mqtt eventually reaches
\* Connected or fails with an error, whatever the broker does, a broker that
\* never answers a Subscribe included
C37_ConnectTerminates == (task[SetupT].pc = "c_open") ~> ConnectEnded

\* up to the Connect-Ack it does: the Connect fails or a Subscribe is sent
C37_AckWaitTerminates ==
    (task[SetupT].pc = "c_open") ~>
        (ConnectEnded \/ task[SetupT].pc \in {"s1_ack", "s2_ack"})

-----------------------------------------------------------------------------
(* Claims about the reference client, src/testing/auth_client.py *)

\* load_tokens() of the reference client on the credentials a: the dict of the
\* token file, without the key expires_at when the expiry is unknown, empty
\* when there is no token
TokenData(a) ==
    IF a.access_token = None THEN <<>>
    ELSE IF a.expires_at = None
      THEN [k \in {"access_token", "refresh_token"} |-> a[k]]
      ELSE [k \in {"access_token", "refresh_token", "expires_at"} |-> a[k]]

\* is_token_expired() of the reference client at the time n
is_token_expired(token_data, n) ==
    \/ DOMAIN token_data = {}
    \/ "expires_at" \notin DOMAIN token_data
    \/ n >= token_data["expires_at"] - RefreshMarginMin

\* the number of refresh calls get_valid_token() of the reference client makes
ReferenceRefreshes(token_data, n) ==
    IF DOMAIN token_data = {} THEN 0
    ELSE IF is_token_expired(token_data, n) THEN 1 ELSE 0

\* C38: get_valid_token() of the auth client makes a refresh call exactly when
\* get_valid_token() of the reference client does on the same credentials:
\* when expires_at is absent, and when now >= expires_at - 5 minutes
C38_AgreesWithReference ==
    [][(Invoked("get_valid_token") /\ auth.access_token # None)
          => call'.refreshes = ReferenceRefreshes(TokenData(auth), now)]_vars

\* C38, the unknown expiry alone: a token whose expires_at is absent is
\* refreshed by get_valid_token() before it is returned
C38_UnknownExpiryRefreshed ==
    [][(Invoked("get_valid_token") /\ auth.access_token # None
                                   /\ auth.expires_at = None)
          => call'.refreshes = 1]_vars

\* C38, the known expiry alone: the two clients agree when expires_at is known
C38_KnownExpiryAgrees ==
    [][(Invoked("get_valid_token") /\ auth.access_token # None
                                   /\ auth.expires_at # None)
          => call'.refreshes = ReferenceRefreshes(TokenData(auth), now)]_vars

-----------------------------------------------------------------------------
(* Claims about the login *)

\* C39: login() reports success only when the redirect carried both track_id
\* and sub: after a call of login() that returned True the client holds both
C39_SuccessNeedsTrackAndSub ==
    [][(Invoked("login") /\ call'.result = "true")
          => (auth'.track_id # None /\ auth'.sub # None)]_vars

\* C39, the other outcomes: a login that did not get a redirect is not
\* reported as a success
C39_NoRedirectIsNoSuccess ==
    [][(Invoked("login") /\ call'.http # "success") => call'.result # "true"]_vars

-----------------------------------------------------------------------------
(* Claims about the entry the onboarding creates *)

\* C40: when the onboarding has completed, the entry it created holds the
\* access token, the refresh token, the sid and the expiry of the tokens that
\* were issued to the client
C40_EntryHoldsIssuedTokens ==
    call.op = "async_create_entry"
       => (entry = Creds(auth) /\ entry.access_token # None
                               /\ entry.refresh_token # None)

\* C40, the tokens themselves: when the onboarding has completed the client
\* holds the four fields of the tokens it was issued
C40_ClientHoldsIssuedTokens ==
    call.op = "async_create_entry"
       => (/\ auth.access_token = issued /\ auth.refresh_token = issued
           /\ auth.sid = issued /\ auth.expires_at # None)

\* C40, the next setup: the setup of an entry that holds no tokens ends at
\* its start, before any request and before the connect step
C40_SetupWithoutTokensFails ==
    entry = FlowData => task[SetupT].pc \in {"x_start", "x_failed"}

====
